---- MODULE Spec2Model ----
(***************************************************************************)
(* PRD MACHINE: the document evolution engine of bamr87/githubai.          *)
(* The store holds PRDState rows keyed by file_path (one repository) and   *)
(* the PRDVersion rows in creation order.  Every action is one handler of  *)
(* apps/prd_machine (services/core.py, views.py, admin.py, tasks.py).      *)
(***************************************************************************)
EXTENDS Integers, Sequences, FiniteSets, TLC

(***************************************************************************)
(* Bounds of the model.                                                    *)
(***************************************************************************)
\* number of distinct non-empty document bodies
MaxContent == 1
\* ticks of the clock: every handler that writes to the store takes one
MaxClock == 4
\* concurrently delivered push triggers
MaxWorkers == 2
\* lines in one answer of the text generator
MaxLines == 2
\* PRDConflict rows in the store
MaxConflicts == 2
\* PRDExport rows in the store
MaxExports == 2

(***************************************************************************)
(* Text.  Document bodies are strings, "" is the empty body.  Version      *)
(* strings are sequences of one-character strings so that split('.') and   *)
(* int() can be computed.                                                  *)
(***************************************************************************)
Contents == {""} \cup {"prd" \o ToString(i) : i \in 1..MaxContent}

Digits == <<"0", "1", "2", "3", "4", "5", "6", "7", "8", "9">>

IsDigit(ch) == \E i \in 1..10 : Digits[i] = ch

DigitVal(ch) == (CHOOSE i \in 1..10 : Digits[i] = ch) - 1

\* str.split('.') on a sequence of characters
RECURSIVE SplitFrom(_, _, _)
SplitFrom(s, i, cur) ==
    IF i > Len(s) THEN <<cur>>
    ELSE IF s[i] = "." THEN <<cur>> \o SplitFrom(s, i + 1, <<>>)
    ELSE SplitFrom(s, i + 1, Append(cur, s[i]))

Split(s) == SplitFrom(s, 1, <<>>)

\* int(part) succeeds (the inputs carry no sign, blank or underscore)
IsInt(p) == Len(p) > 0 /\ \A i \in 1..Len(p) : IsDigit(p[i])

\* int(part)
RECURSIVE ParseInt(_)
ParseInt(p) ==
    IF Len(p) = 0 THEN 0
    ELSE 10 * ParseInt(SubSeq(p, 1, Len(p) - 1)) + DigitVal(p[Len(p)])

\* f"{n}" of a non-negative integer
RECURSIVE FormatInt(_)
FormatInt(n) ==
    IF n < 10 THEN <<Digits[n + 1]>>
    ELSE FormatInt(n \div 10) \o <<Digits[(n % 10) + 1]>>

\* f"{a}.{b}.{c}" of three character sequences
Join3(a, b, c) == a \o <<".">> \o b \o <<".">> \o c

\* the default of PRDState.version
DefaultVersion == <<"1", ".", "0", ".", "0">>

\* hashlib.sha256(content.encode()).hexdigest(): injective, never blank
SHA256(c) == "sha256(" \o c \o ")"

(***************************************************************************)
(* Inputs of the handlers.                                                 *)
(***************************************************************************)
PRD == "PRD.md"
README == "README.md"
IP == "IP.md"

\* file paths of the one repository the service is constructed for
Paths == {PRD, README, IP}

\* outcome of github_service.fetch_file_contents and of ai_service.call_ai_chat:
\* a text (possibly empty) or an exception
CallResults ==
    {[ok |-> FALSE, text |-> ""]} \cup {[ok |-> TRUE, text |-> c] : c \in Contents}

\* (trigger_type, trigger_ref) pairs handed to distill_prd by its callers
Triggers ==
    { [type |-> "manual_sync", ref |-> <<"API: distill endpoint">>],
      [type |-> "commit", ref |-> <<"abc1234">>] }

BumpTypes == {"major", "minor", "patch"}

\* version strings an administrator enters in the PRDState change form
VersionInputs ==
    { <<"0", ".", "1", ".", "0">>,
      <<"b", "o", "g", "u", "s">>,
      <<"1", ".", "2">>,
      <<"1", ".", "x", ".", "0">>,
      <<"1", ".", "0", ".", "x">> }

\* the text _generate_change_summary gets back from the generator
AISummary == <<"ai change summary">>

RejectMessage == "I got this, meatbag. Zero-touch mode active - reverting human edit."

(***************************************************************************)
(* State.                                                                  *)
(***************************************************************************)
VARIABLES
    prd_states,    \* file_path -> PRDState row, for the rows that exist
    prd_versions,  \* PRDVersion rows in creation order
    next_id,       \* next primary key of PRDState
    now,           \* timezone.now(), a logical clock
    last,          \* the last handler that ran, its arguments and its result
    workers,       \* the Celery tasks in flight: position and in-memory instance
    prd_events,    \* PRDEvent rows in creation order
    prd_conflicts, \* PRDConflict rows in creation order
    prd_exports,   \* PRDExport rows in creation order
    github_issues  \* the issues create_github_issue has opened, in call order

\* what only the Celery tasks change
task_state == <<workers, prd_events>>

\* what conflict detection and the exports write
report_state == <<prd_conflicts, prd_exports, github_issues>>

vars == <<prd_states, prd_versions, next_id, now, last, workers, prd_events,
          prd_conflicts, prd_exports, github_issues>>

NULL == 0

\* PRDState(repo, file_path, version='1.0.0', auto_evolve=True) before save()
NewPRDState(id) ==
    [ id |-> id, content |-> "", content_hash |-> "", version |-> DefaultVersion,
      is_locked |-> FALSE, auto_evolve |-> TRUE,
      last_distilled_at |-> NULL, last_synced_at |-> NULL, updated_at |-> NULL,
      slack_webhook |-> "" ]

\* PRDState.save() at time t: the hash is recomputed only when content is
\* non-empty; updated_at is auto_now
PRDState_save(row, t) ==
    IF row.content # ""
    THEN [row EXCEPT !.content_hash = SHA256(row.content), !.updated_at = t]
    ELSE [row EXCEPT !.updated_at = t]

\* PRDVersion.objects.create(...); is_human_edit takes its default and
\* created_at is auto_now_add
PRDVersion_create(path, version, content, content_hash, trigger_type, trigger_ref, change_summary, created_at) ==
    [ prd_state |-> path, version |-> version, content |-> content,
      content_hash |-> content_hash, trigger_type |-> trigger_type,
      trigger_ref |-> trigger_ref, change_summary |-> change_summary,
      is_human_edit |-> FALSE, created_at |-> created_at ]

\* the table when a row replaces the row of the same document and version
PRDVersion_upsert(versions, row) ==
    IF \E i \in 1..Len(versions) :
          versions[i].prd_state = row.prd_state /\ versions[i].version = row.version
    THEN [i \in 1..Len(versions) |->
            IF versions[i].prd_state = row.prd_state /\ versions[i].version = row.version
            THEN row ELSE versions[i]]
    ELSE Append(versions, row)

\* the PRDVersion table after objects.create: an INSERT of the new row
PRDVersion_insert(versions, row) ==
    Append(versions, row)

\* PRDState.objects.get_or_create(repo, file_path, defaults): the store after it
StoreAfterGetOrCreate(store, path, id, t) ==
    IF path \in DOMAIN store THEN store
    ELSE store @@ (path :> PRDState_save(NewPRDState(id), t))

IdAfterGetOrCreate(store, path, id) ==
    IF path \in DOMAIN store THEN id ELSE id + 1

\* _increment_version raises ValueError: three parts, the last not an integer
IncrementVersionRaises(version) ==
    LET parts == Split(version) IN Len(parts) = 3 /\ ~IsInt(parts[3])

\* _increment_version without the + 1 on the patch part
IncrementVersionKeepsPatch(version) ==
    LET parts == Split(version) IN
    IF Len(parts) # 3 THEN <<"1", ".", "0", ".", "1">>
    ELSE Join3(parts[1], parts[2], FormatInt(ParseInt(parts[3])))

\* _increment_version
_increment_version(version) ==
    LET parts == Split(version) IN
    IF Len(parts) # 3 THEN <<"1", ".", "0", ".", "1">>
    ELSE Join3(parts[1], parts[2], FormatInt(ParseInt(parts[3]) + 1))

\* bump_version: parts after the malformed-length reset
BumpParts(version) ==
    LET parts == Split(version) IN
    IF Len(parts) # 3 THEN <<(<<"1">>), (<<"0">>), (<<"0">>)>> ELSE parts

\* bump_version raises ValueError in int()
BumpVersionRaises(version) ==
    \E i \in 1..3 : ~IsInt(BumpParts(version)[i])

\* bump_version with a minor bump that forgets patch = 0
BumpVersionKeepsPatch(version, bump_type) ==
    LET parts == BumpParts(version)
        major == ParseInt(parts[1])
        minor == ParseInt(parts[2])
        patch == ParseInt(parts[3])
    IN  IF bump_type = "major" THEN Join3(FormatInt(major + 1), FormatInt(0), FormatInt(0))
        ELSE IF bump_type = "minor" THEN Join3(FormatInt(major), FormatInt(minor + 1), FormatInt(patch))
        ELSE Join3(FormatInt(major), FormatInt(minor), FormatInt(patch + 1))

\* bump_version with a patch bump that assigns 1 where the code adds 1
BumpVersionAssignsPatch(version, bump_type) ==
    LET parts == BumpParts(version)
        major == ParseInt(parts[1])
        minor == ParseInt(parts[2])
    IN  IF bump_type = "major" THEN Join3(FormatInt(major + 1), FormatInt(0), FormatInt(0))
        ELSE IF bump_type = "minor" THEN Join3(FormatInt(major), FormatInt(minor + 1), FormatInt(0))
        ELSE Join3(FormatInt(major), FormatInt(minor), FormatInt(1))

\* bump_version: the new version string
BumpVersionResult(version, bump_type) ==
    LET parts == BumpParts(version)
        major == ParseInt(parts[1])
        minor == ParseInt(parts[2])
        patch == ParseInt(parts[3])
    IN  IF bump_type = "major" THEN Join3(FormatInt(major + 1), FormatInt(0), FormatInt(0))
        ELSE IF bump_type = "minor" THEN Join3(FormatInt(major), FormatInt(minor + 1), FormatInt(0))
        ELSE Join3(FormatInt(major), FormatInt(minor), FormatInt(patch + 1))

\* indexes of the PRDVersion rows of one document, in creation order
VersionsOf(path) == {i \in 1..Len(prd_versions) : prd_versions[i].prd_state = path}

\* prd_state.versions.filter(is_human_edit=False).order_by('-created_at').first()
MachineVersionsOf(path) == {i \in VersionsOf(path) : ~prd_versions[i].is_human_edit}

Max(S) == CHOOSE x \in S : \A y \in S : y <= x

\* enforce_zero_touch: (allowed, message)
enforce_zero_touch_result(path, new_content) ==
    IF ~prd_states[path].is_locked
    THEN <<TRUE, "Edit allowed - zero-touch mode disabled">>
    ELSE IF MachineVersionsOf(path) # {}
            /\ SHA256(new_content) # prd_versions[Max(MachineVersionsOf(path))].content_hash
         THEN <<FALSE, RejectMessage>>
         ELSE <<TRUE, "Edit allowed">>

(***************************************************************************)
(* Handlers, each run to completion (one request, one CLI command, one     *)
(* task at a time).  A handler that writes to the store takes one tick of  *)
(* the clock; all its writes carry that time.                              *)
(***************************************************************************)
Ran(op, path, raised, arg, ret) ==
    [op |-> op, path |-> path, raised |-> raised, arg |-> arg, ret |-> ret]

Tick == now < MaxClock /\ now' = now + 1

\* PRDMachineService.get_or_create_prd_state
get_or_create_prd_state(file_path) ==
    /\ prd_states' = StoreAfterGetOrCreate(prd_states, file_path, next_id, now + 1)
    /\ next_id' = IdAfterGetOrCreate(prd_states, file_path, next_id)
    /\ IF file_path \in DOMAIN prd_states THEN UNCHANGED now ELSE Tick
    /\ last' = Ran("get_or_create_prd_state", file_path, FALSE,
                   <<file_path \in DOMAIN prd_states>>, <<prd_states'[file_path].id>>)
    /\ UNCHANGED <<prd_versions, task_state, report_state>>

\* PRDMachineService.get_or_create_document_state: PRDState has no field
\* document_type, so the create branch of get_or_create raises FieldError
get_or_create_document_state(file_path, document_type) ==
    /\ IF file_path \in DOMAIN prd_states
       THEN last' = Ran("get_or_create_document_state", file_path, FALSE,
                        <<TRUE>>, <<prd_states[file_path].id>>)
       ELSE last' = Ran("get_or_create_document_state", file_path, TRUE,
                        <<FALSE>>, <<"FieldError">>)
    /\ UNCHANGED <<prd_states, prd_versions, next_id, now, task_state, report_state>>

\* PRDMachineService.sync_from_github
sync_from_github(file_path, fetched, summary_ok) ==
    LET created == file_path \notin DOMAIN prd_states
        store == StoreAfterGetOrCreate(prd_states, file_path, next_id, now + 1)
        state == store[file_path]
        content == fetched.text
        new_hash == SHA256(content)
        old_content == state.content
        saved == PRDState_save([state EXCEPT !.content = content,
                                             !.last_synced_at = now + 1], now + 1)
        change_summary == IF old_content # "" THEN AISummary ELSE <<"Initial sync">>
    IN
    /\ next_id' = IdAfterGetOrCreate(prd_states, file_path, next_id)
    /\ UNCHANGED <<task_state, report_state>>
    /\ IF ~fetched.ok
       THEN /\ prd_states' = store
            /\ IF created THEN Tick ELSE UNCHANGED now
            /\ last' = Ran("sync_from_github", file_path, TRUE, <<"">>, <<>>)
            /\ UNCHANGED prd_versions
       ELSE IF new_hash = state.content_hash
       THEN /\ prd_states' = store
            /\ IF created THEN Tick ELSE UNCHANGED now
            /\ last' = Ran("sync_from_github", file_path, FALSE, <<content>>, <<>>)
            /\ UNCHANGED prd_versions
       ELSE /\ Tick
            /\ prd_states' = [store EXCEPT ![file_path] = saved]
            /\ IF old_content # "" /\ ~summary_ok
               THEN /\ last' = Ran("sync_from_github", file_path, TRUE, <<content>>, <<>>)
                    /\ UNCHANGED prd_versions
               ELSE /\ prd_versions' = PRDVersion_insert(prd_versions,
                          PRDVersion_create(file_path, saved.version, content, new_hash,
                              "manual_sync", <<"Synced from GitHub">>, change_summary, now + 1))
                    /\ last' = Ran("sync_from_github", file_path, FALSE, <<content>>, <<>>)

\* PRDMachineService.distill_prd
distill_prd(path, trigger, evolved, summary_ok) ==
    LET prd_state == prd_states[path]
        validated_content == evolved.text
        old_content == prd_state.content
        saved == PRDState_save([prd_state EXCEPT
                    !.content = validated_content,
                    !.last_distilled_at = now + 1,
                    !.version = _increment_version(prd_state.version)], now + 1)
    IN
    /\ path \in DOMAIN prd_states
    /\ UNCHANGED <<next_id, task_state, report_state>>
    /\ IF ~evolved.ok \/ IncrementVersionRaises(prd_state.version)
       THEN /\ last' = Ran("distill_prd", path, TRUE, <<trigger.type>>, <<>>)
            /\ UNCHANGED <<prd_states, prd_versions, now>>
       ELSE /\ Tick
            /\ prd_states' = [prd_states EXCEPT ![path] = saved]
            /\ IF old_content # "" /\ ~summary_ok
               THEN /\ last' = Ran("distill_prd", path, TRUE, <<trigger.type>>, <<>>)
                    /\ UNCHANGED prd_versions
               ELSE /\ prd_versions' = PRDVersion_insert(prd_versions,
                          PRDVersion_create(path, saved.version, validated_content,
                              saved.content_hash, trigger.type, trigger.ref,
                              IF old_content = "" THEN <<"Initial version">> ELSE AISummary, now + 1))
                    /\ last' = Ran("distill_prd", path, FALSE,
                                   <<trigger.type, validated_content>>, trigger.ref)

\* str.split(sep) on a sequence of tokens
RECURSIVE SplitOnFrom(_, _, _, _)
SplitOnFrom(s, sep, i, cur) ==
    IF i > Len(s) THEN <<cur>>
    ELSE IF s[i] = sep THEN <<cur>> \o SplitOnFrom(s, sep, i + 1, <<>>)
    ELSE SplitOnFrom(s, sep, i + 1, Append(cur, s[i]))

SplitOn(s, sep) == SplitOnFrom(s, sep, 1, <<>>)

\* settings.DEFAULT_REPO, the repository of a service constructed without one
DEFAULT_REPO ==
    <<"b", "a", "m", "r", "8", "7", "/", "g", "i", "t", "h", "u", "b", "a", "i">>

\* project_name=None
NoName == <<>>

LowerCase ==
    <<"a", "b", "c", "d", "e", "f", "g", "h", "i", "j", "k", "l", "m",
      "n", "o", "p", "q", "r", "s", "t", "u", "v", "w", "x", "y", "z">>

UpperCase ==
    <<"A", "B", "C", "D", "E", "F", "G", "H", "I", "J", "K", "L", "M",
      "N", "O", "P", "Q", "R", "S", "T", "U", "V", "W", "X", "Y", "Z">>

IsLower(ch) == \E i \in 1..Len(LowerCase) : LowerCase[i] = ch

IsUpper(ch) == \E i \in 1..Len(UpperCase) : UpperCase[i] = ch

IsCased(ch) == IsLower(ch) \/ IsUpper(ch)

\* str.upper() and str.lower() of one character
ToUpper(ch) ==
    IF IsLower(ch) THEN UpperCase[CHOOSE i \in 1..Len(LowerCase) : LowerCase[i] = ch]
    ELSE ch

ToLower(ch) ==
    IF IsUpper(ch) THEN LowerCase[CHOOSE i \in 1..Len(UpperCase) : UpperCase[i] = ch]
    ELSE ch

\* str.capitalize(): the first character in upper case, the others in lower case
Capitalize(s) ==
    [i \in 1..Len(s) |-> IF i = 1 THEN ToUpper(s[i]) ELSE ToLower(s[i])]

\* str.title(): a cased character that follows a cased character is put in
\* lower case, every other one in upper case
Title(s) ==
    [i \in 1..Len(s) |->
        IF i > 1 /\ IsCased(s[i - 1]) THEN ToLower(s[i]) ELSE ToUpper(s[i])]

\* str.replace(old, new) for single characters
Replace(s, old, new) ==
    [i \in 1..Len(s) |-> IF s[i] = old THEN new ELSE s[i]]

\* str.split('/')[-1]
LastSegment(s) ==
    LET parts == SplitOn(s, "/") IN parts[Len(parts)]

\* if not project_name: project_name = self.repo.split('/')[-1].replace('-', ' ').title()
ProjectNameOf(repo, project_name) ==
    IF Len(project_name) = 0
    THEN Title(Replace(LastSegment(repo), "-", " "))
    ELSE project_name

\* PRDMachineService.generate_prd_from_scratch of the service of repository repo
generate_prd_from_scratch(repo, project_name, file_path, generated) ==
    LET name == ProjectNameOf(repo, project_name)
        store == StoreAfterGetOrCreate(prd_states, file_path, next_id, now + 1)
        state == store[file_path]
        saved == PRDState_save([state EXCEPT
                    !.content = generated.text,
                    !.version = DefaultVersion,
                    !.last_distilled_at = now + 1], now + 1)
    IN
    /\ UNCHANGED <<task_state, report_state>>
    /\ IF ~generated.ok
       THEN /\ last' = Ran("generate_prd_from_scratch", file_path, TRUE, <<>>, <<>>)
            /\ UNCHANGED <<prd_states, prd_versions, next_id, now>>
       ELSE /\ Tick
            /\ next_id' = IdAfterGetOrCreate(prd_states, file_path, next_id)
            /\ prd_states' = [store EXCEPT ![file_path] = saved]
            /\ prd_versions' = PRDVersion_insert(prd_versions,
                  PRDVersion_create(file_path, DefaultVersion, generated.text,
                      saved.content_hash, "initial", <<"Generated from ">> \o repo,
                      <<"Initial PRD generation from repository analysis">>, now + 1))
            /\ last' = Ran("generate_prd_from_scratch", file_path, FALSE,
                           <<generated.text, repo, project_name, name>>, <<>>)

\* PRDMachineService.bump_version
bump_version(path, bump_type) ==
    LET prd_state == prd_states[path]
        new_version == BumpVersionResult(prd_state.version, bump_type)
    IN
    /\ path \in DOMAIN prd_states
    /\ UNCHANGED <<prd_versions, next_id, task_state, report_state>>
    /\ IF BumpVersionRaises(prd_state.version)
       THEN /\ last' = Ran("bump_version", path, TRUE, <<bump_type>>, <<>>)
            /\ UNCHANGED <<prd_states, now>>
       ELSE /\ Tick
            /\ prd_states' = [prd_states EXCEPT ![path] =
                  PRDState_save([prd_state EXCEPT !.version = new_version], now + 1)]
            /\ last' = Ran("bump_version", path, FALSE, <<bump_type>>, new_version)

\* PRDStateViewSet.toggle_lock, PRDStateAdmin.action_toggle_lock
toggle_lock(path) ==
    /\ path \in DOMAIN prd_states
    /\ Tick
    /\ prd_states' = [prd_states EXCEPT ![path] =
          PRDState_save([prd_states[path] EXCEPT !.is_locked = ~@], now + 1)]
    /\ last' = Ran("toggle_lock", path, FALSE, <<>>, <<prd_states'[path].is_locked>>)
    /\ UNCHANGED <<prd_versions, next_id, task_state, report_state>>

\* PRDMachineService.enforce_zero_touch
enforce_zero_touch(path, new_content) ==
    /\ path \in DOMAIN prd_states
    /\ last' = Ran("enforce_zero_touch", path, FALSE, <<new_content>>,
                   enforce_zero_touch_result(path, new_content))
    /\ UNCHANGED <<prd_states, prd_versions, next_id, now, task_state, report_state>>

\* the PRDState change form of the admin (and PUT/PATCH of PRDStateViewSet):
\* version is an editable field
update_version(path, version) ==
    /\ path \in DOMAIN prd_states
    /\ Tick
    /\ prd_states' = [prd_states EXCEPT ![path] =
          PRDState_save([prd_states[path] EXCEPT !.version = version], now + 1)]
    /\ last' = Ran("update_version", path, FALSE, <<>>, version)
    /\ UNCHANGED <<prd_versions, next_id, task_state, report_state>>

\* the PRDVersion change form of the admin: is_human_edit is editable
mark_human_edit(i) ==
    /\ i \in 1..Len(prd_versions)
    /\ ~prd_versions[i].is_human_edit
    /\ Tick
    /\ prd_versions' = [prd_versions EXCEPT ![i].is_human_edit = TRUE]
    /\ last' = Ran("mark_human_edit", prd_versions[i].prd_state, FALSE, <<>>, <<i>>)
    /\ UNCHANGED <<prd_states, next_id, task_state, report_state>>

\* the body shared by sync_readme_from_prd and sync_ip_from_prd; parent_document
\* and last_aligned_at are not fields of PRDState, save() does not persist them
sync_derived_from_prd(op, path, document_type, summary, fetched, updated) ==
    LET prd_state == prd_states[PRD]
        derived == prd_states[path]
        saved == PRDState_save([derived EXCEPT !.content = updated.text], now + 1)
    IN
    /\ PRD \in DOMAIN prd_states
    /\ UNCHANGED <<next_id, task_state, report_state>>
    /\ IF path \notin DOMAIN prd_states
       THEN \* get_or_create_document_state raises FieldError
            /\ last' = Ran(op, path, TRUE, <<fetched.ok>>, <<"FieldError">>)
            /\ UNCHANGED <<prd_states, prd_versions, now>>
       ELSE IF ~fetched.ok
       THEN /\ last' = Ran(op, path, FALSE, <<>>, <<"skipped">>)
            /\ UNCHANGED <<prd_states, prd_versions, now>>
       ELSE IF ~updated.ok
       THEN /\ last' = Ran(op, path, TRUE, <<>>, <<"generator">>)
            /\ UNCHANGED <<prd_states, prd_versions, now>>
       ELSE /\ Tick
            /\ prd_states' = [prd_states EXCEPT ![path] = saved]
            /\ prd_versions' = PRDVersion_insert(prd_versions,
                  PRDVersion_create(path, saved.version, updated.text, saved.content_hash,
                      "manual_sync", <<"Synced from PRD v">> \o prd_state.version,
                      summary \o prd_state.version, now + 1))
            /\ last' = Ran(op, path, FALSE, <<updated.text>>, <<"synced">>)

\* PRDMachineService.sync_readme_from_prd
sync_readme_from_prd(fetched, updated) ==
    sync_derived_from_prd("sync_readme_from_prd", README, "readme",
                          <<"Aligned with PRD v">>, fetched, updated)

\* PRDMachineService.sync_ip_from_prd
sync_ip_from_prd(fetched, updated) ==
    sync_derived_from_prd("sync_ip_from_prd", IP, "ip",
                          <<"Aligned deliverables with PRD v">>, fetched, updated)

(***************************************************************************)
(* Spec: the canonical document, its handlers run one at a time.           *)
(***************************************************************************)
\* max_retries of the shared_task decorator
max_retries == 3

\* a task that has not been delivered yet
IdleWorker ==
    [pc |-> "idle", retries |-> 0, prd_state |-> NewPRDState(0), old_content |-> "",
     event |-> 0, relevant |-> FALSE]

NoWorkers == [w \in 1..MaxWorkers |-> IdleWorker]

Init ==
    /\ prd_states = <<>>
    /\ prd_versions = <<>>
    /\ next_id = 1
    /\ now = 0
    /\ last = Ran("init", "", FALSE, <<>>, <<>>)
    /\ workers = NoWorkers
    /\ prd_events = <<>>
    /\ prd_conflicts = <<>>
    /\ prd_exports = <<>>
    /\ github_issues = <<>>

Next ==
    \/ get_or_create_prd_state(PRD)
    \/ \E f \in CallResults, ok \in BOOLEAN : sync_from_github(PRD, f, ok)
    \/ \E t \in Triggers, e \in CallResults, ok \in BOOLEAN : distill_prd(PRD, t, e, ok)
    \/ \E g \in CallResults : generate_prd_from_scratch(DEFAULT_REPO, NoName, PRD, g)
    \/ toggle_lock(PRD)
    \/ \E c \in Contents : enforce_zero_touch(PRD, c)
    \/ \E i \in 1..MaxClock : mark_human_edit(i)

Spec == Init /\ [][Next]_vars

(***************************************************************************)
(* SpecDocs: the canonical document and the two derived documents.         *)
(***************************************************************************)
NextDocs ==
    \/ \E p \in Paths : get_or_create_prd_state(p)
    \/ \E p \in {README, IP} :
          get_or_create_document_state(p, IF p = README THEN "readme" ELSE "ip")
    \/ \E f \in CallResults, ok \in BOOLEAN : sync_from_github(PRD, f, ok)
    \/ \E f \in CallResults, u \in CallResults : sync_readme_from_prd(f, u)
    \/ \E f \in CallResults, u \in CallResults : sync_ip_from_prd(f, u)

SpecDocs == Init /\ [][NextDocs]_vars

(***************************************************************************)
(* SpecVersion: version arithmetic on a document whose version string and  *)
(* body are drawn from bounded sets.                                       *)
(***************************************************************************)
\* version strings a PRDState row may carry
VersionSeeds ==
    { DefaultVersion,
      <<"1", ".", "2", ".", "3">>,
      <<"1", ".", "0", ".", "9">>,
      <<"0", "1", ".", "0", ".", "0">> }

InitVersion ==
    /\ \E c \in Contents, v \in VersionSeeds :
          prd_states = (PRD :> PRDState_save(
              [NewPRDState(1) EXCEPT !.content = c, !.version = v], 1))
    /\ prd_versions = <<>>
    /\ next_id = 2
    /\ now = 1
    /\ last = Ran("init", "", FALSE, <<>>, <<>>)
    /\ workers = NoWorkers
    /\ prd_events = <<>>
    /\ prd_conflicts = <<>>
    /\ prd_exports = <<>>
    /\ github_issues = <<>>

NextVersion ==
    \/ \E b \in BumpTypes : bump_version(PRD, b)
    \/ \E v \in VersionInputs : update_version(PRD, v)
    \/ \E t \in Triggers, e \in CallResults, ok \in BOOLEAN : distill_prd(PRD, t, e, ok)

SpecVersion == InitVersion /\ [][NextVersion]_vars

(***************************************************************************)
(* SpecWorkers: process_github_push_event tasks delivered to a worker pool.*)
(* A task is suspended at each call of the text generator; the other       *)
(* tasks run meanwhile.  Each task works on the PRDState instance it       *)
(* loaded; save() writes every field of that instance.                     *)
(***************************************************************************)
\* PRDEvent.objects.create(prd_state, event_type='push', event_data)
PRDEvent_create(w) ==
    [prd_state |-> PRD, event_type |-> "push", commit_sha |-> <<"sha", ToString(w)>>,
     processed |-> FALSE, processed_at |-> NULL, result |-> <<>>]

\* event.processed = True; event.processed_at = now; event.result = ...; event.save()
EventProcessed(events, e, t, result) ==
    [events EXCEPT ![e].processed = TRUE, ![e].processed_at = t, ![e].result = result]

\* except Exception as exc: raise self.retry(exc=exc, countdown=60)
Retried(worker) ==
    IF worker.retries < max_retries
    THEN [IdleWorker EXCEPT !.pc = "queued", !.retries = worker.retries + 1,
                            !.relevant = worker.relevant]
    ELSE [IdleWorker EXCEPT !.pc = "failed", !.retries = worker.retries]

\* process_github_push_event up to the call of the text generator in distill_prd
push_event_start(w, relevant) ==
    LET created == PRD \notin DOMAIN prd_states
        store == StoreAfterGetOrCreate(prd_states, PRD, next_id, now + 1)
        prd_state == store[PRD]
        rel == IF workers[w].pc = "queued" THEN workers[w].relevant ELSE relevant
        e == Len(prd_events) + 1
        events == Append(prd_events, PRDEvent_create(w))
    IN
    /\ workers[w].pc \in {"idle", "queued"}
    /\ Tick
    /\ prd_states' = store
    /\ next_id' = IdAfterGetOrCreate(prd_states, PRD, next_id)
    /\ UNCHANGED <<prd_versions, last, report_state>>
    /\ IF ~prd_state.auto_evolve
       THEN /\ prd_events' = EventProcessed(events, e, now + 1,
                                            <<"Auto-evolve disabled - skipped">>)
            /\ workers' = [workers EXCEPT ![w] = [IdleWorker EXCEPT !.pc = "skipped"]]
       ELSE IF ~rel
       THEN /\ prd_events' = EventProcessed(events, e, now + 1,
                                            <<"No PRD-relevant changes detected">>)
            /\ workers' = [workers EXCEPT ![w] = [IdleWorker EXCEPT !.pc = "skipped"]]
       ELSE /\ prd_events' = events
            /\ workers' = [workers EXCEPT ![w] =
                  [pc |-> "distilling", retries |-> workers[w].retries,
                   prd_state |-> prd_state, old_content |-> prd_state.content,
                   event |-> e, relevant |-> rel]]

\* the version row and the event update that end a successful distillation
PushEventFinish(w, inst, versions, events, old_content, summary) ==
    /\ prd_versions' = PRDVersion_insert(versions,
          PRDVersion_create(PRD, inst.version, inst.content, inst.content_hash,
              "commit", <<"sha", ToString(w)>>, summary, now + 1))
    /\ prd_events' = EventProcessed(events, workers[w].event, now + 1,
                                    <<"Distilled PRD to v">> \o inst.version)
    /\ workers' = [workers EXCEPT ![w] = [IdleWorker EXCEPT !.pc = "distilled"]]

\* distill_prd from the answer of the text generator to prd_state.save(), and on
\* to the end of the task when no change summary has to be generated
push_event_distill(w, evolved) ==
    LET inst == workers[w].prd_state
        saved == PRDState_save([inst EXCEPT
                    !.content = evolved.text,
                    !.last_distilled_at = now + 1,
                    !.version = _increment_version(inst.version)], now + 1)
    IN
    /\ workers[w].pc = "distilling"
    /\ UNCHANGED <<next_id, last, report_state>>
    /\ IF ~evolved.ok \/ IncrementVersionRaises(inst.version)
       THEN /\ workers' = [workers EXCEPT ![w] = Retried(workers[w])]
            /\ UNCHANGED <<prd_states, prd_versions, prd_events, now>>
       ELSE /\ Tick
            /\ prd_states' = [prd_states EXCEPT ![PRD] = saved]
            /\ IF workers[w].old_content = ""
               THEN PushEventFinish(w, saved, prd_versions, prd_events, "",
                                    <<"Initial version">>)
               ELSE /\ workers' = [workers EXCEPT ![w].pc = "summarizing",
                                                  ![w].prd_state = saved]
                    /\ UNCHANGED <<prd_versions, prd_events>>

\* distill_prd from the answer of _generate_change_summary to the end of the task
push_event_summary(w, summary_ok) ==
    /\ workers[w].pc = "summarizing"
    /\ UNCHANGED <<prd_states, next_id, last, report_state>>
    /\ IF ~summary_ok
       THEN /\ workers' = [workers EXCEPT ![w] = Retried(workers[w])]
            /\ UNCHANGED <<prd_versions, prd_events, now>>
       ELSE /\ Tick
            /\ PushEventFinish(w, workers[w].prd_state, prd_versions, prd_events,
                               workers[w].old_content, AISummary)

NextWorkers ==
    \/ \E w \in 1..MaxWorkers, r \in BOOLEAN : push_event_start(w, r)
    \/ \E w \in 1..MaxWorkers, e \in CallResults : push_event_distill(w, e)
    \/ \E w \in 1..MaxWorkers, ok \in BOOLEAN : push_event_summary(w, ok)

SpecWorkers == Init /\ [][NextWorkers]_vars

(***************************************************************************)
(* Generator answers that are parsed line by line.  An answer is a sequence *)
(* of tokens; "\n" separates lines and "|" separates the fields of a line.  *)
(***************************************************************************)
IsSpace(tok) == tok \in {"\n", " "}

\* str.strip()
RECURSIVE Strip(_)
Strip(s) ==
    IF Len(s) = 0 THEN s
    ELSE IF IsSpace(s[1]) THEN Strip(Tail(s))
    ELSE IF IsSpace(s[Len(s)]) THEN Strip(SubSeq(s, 1, Len(s) - 1))
    ELSE s

\* response.strip().split('\n')
Lines(response) == SplitOn(Strip(response), "\n")

\* line.startswith(tag + '|')
StartsWith(line, tag) == Len(line) >= 2 /\ line[1] = tag /\ line[2] = "|"

\* '\n'.join(lines)
RECURSIVE JoinLines(_)
JoinLines(lines) ==
    IF Len(lines) = 0 THEN <<>>
    ELSE IF Len(lines) = 1 THEN lines[1]
    ELSE lines[1] \o <<"\n">> \o JoinLines(Tail(lines))

\* the answers built from at most n of the given lines
RECURSIVE AnswersOf(_, _)
AnswersOf(lines, n) ==
    IF n = 0 THEN {<<>>}
    ELSE LET shorter == AnswersOf(lines, n - 1) IN
         shorter \cup {<<l>> \o a : l \in lines, a \in {b \in shorter : Len(b) = n - 1}}

\* lines the generator gives detect_conflicts
ConflictLines ==
    { <<"CONFLICT", "|", "version_mismatch", "|", "medium", "|", "ROAD", "|",
        "Version mismatch", "|", "Update PRD">>,
      <<"CONFLICT", "|", "missing_feature", "|", "low", "|", "MVP", "|", "Feature missing">>,
      <<"CONFLICT", "|", "other", "|", "urgent", "|", "API", "|", "Endpoint gone", "|",
        "Restore it">>,
      <<"CONFLICT", "|", "outdated_api", "|", "high", "|", "API", "|", "Old route", "|",
        "Document it", "|", "today">>,
      <<"NO_CONFLICTS">> }

\* answers of the generator to detect_conflicts: the call raised, or a text
ConflictAnswers ==
    {[ok |-> FALSE, text |-> <<>>]}
    \cup {[ok |-> TRUE, text |-> JoinLines(a)] : a \in AnswersOf(ConflictLines, MaxLines)}

\* PRDConflict.objects.create(...): resolved and slack_notified take their defaults
PRDConflict_create(path, conflict_type, severity, section_affected, description, suggested_resolution) ==
    [ prd_state |-> path, conflict_type |-> conflict_type, severity |-> severity,
      section_affected |-> section_affected, description |-> description,
      suggested_resolution |-> suggested_resolution,
      resolved |-> FALSE, resolved_at |-> NULL, resolved_by |-> <<>>,
      slack_notified |-> FALSE ]

\* the parse loop of detect_conflicts with the length test off by one
RECURSIVE ParseConflictsAcceptsShort(_, _)
ParseConflictsAcceptsShort(path, lines) ==
    IF Len(lines) = 0 THEN <<>>
    ELSE LET line == Head(lines)
             parts == SplitOn(line, "|")
         IN  IF StartsWith(line, "CONFLICT") /\ Len(parts) >= 5
             THEN <<PRDConflict_create(path, parts[2], parts[3], parts[4], parts[5],
                                       IF Len(parts) > 5 THEN parts[6] ELSE <<>>)>>
                  \o ParseConflictsAcceptsShort(path, Tail(lines))
             ELSE ParseConflictsAcceptsShort(path, Tail(lines))

\* the parse loop of detect_conflicts: the rows it creates, in line order
RECURSIVE ParseConflicts(_, _)
ParseConflicts(path, lines) ==
    IF Len(lines) = 0 THEN <<>>
    ELSE LET line == Head(lines)
             parts == SplitOn(line, "|")
         IN  IF StartsWith(line, "CONFLICT") /\ Len(parts) >= 6
             THEN <<PRDConflict_create(path, parts[2], parts[3], parts[4], parts[5],
                                       parts[6])>>
                  \o ParseConflicts(path, Tail(lines))
             ELSE ParseConflicts(path, Tail(lines))

\* PRDMachineService.detect_conflicts
detect_conflicts(path, response) ==
    LET rows == ParseConflicts(path, Lines(response.text)) IN
    /\ path \in DOMAIN prd_states
    /\ UNCHANGED <<prd_states, prd_versions, next_id, task_state, prd_exports, github_issues>>
    /\ IF prd_states[path].content = ""
       THEN /\ last' = Ran("detect_conflicts", path, FALSE, <<>>, <<>>)
            /\ UNCHANGED <<prd_conflicts, now>>
       ELSE IF ~response.ok
       THEN /\ last' = Ran("detect_conflicts", path, TRUE, <<>>, <<>>)
            /\ UNCHANGED <<prd_conflicts, now>>
       ELSE /\ Len(prd_conflicts) + Len(rows) <= MaxConflicts
            /\ IF rows = <<>> THEN UNCHANGED now ELSE Tick
            /\ prd_conflicts' = prd_conflicts \o rows
            /\ last' = Ran("detect_conflicts", path, FALSE, <<response.text>>, rows)

\* lines the generator gives detect_document_drift
DriftLines ==
    { <<"DRIFT", "|", "PRD", "|", "README", "|", "medium", "|", "Features", "|",
        "Feature list out of sync">>,
      <<"DRIFT", "|", "PRD", "|", "IP", "|", "low", "|", "Version", "|",
        "Version numbers differ">>,
      <<"DRIFT", "|", "README", "|", "IP", "|", "severe", "|", "API", "|", "Routes differ">>,
      <<"DRIFT", "|", "PRD", "|", "README", "|", "high", "|", "Structure">>,
      <<"NO_DRIFT">> }

\* answers of the generator to detect_document_drift
DriftAnswers ==
    {[ok |-> FALSE, text |-> <<>>]}
    \cup {[ok |-> TRUE, text |-> JoinLines(a)] : a \in AnswersOf(DriftLines, MaxLines)}

\* 'version' in field.lower(), for the section names of DriftLines
MentionsVersion(field) ==
    \E i \in 1..Len(field) : field[i] \in {"Version", "version", "VERSION"}

\* the parse loop of detect_document_drift: the rows it creates, in line order
RECURSIVE ParseDrift(_, _)
ParseDrift(path, lines) ==
    IF Len(lines) = 0 THEN <<>>
    ELSE LET line == Head(lines)
             parts == SplitOn(line, "|")
         IN  IF StartsWith(line, "DRIFT") /\ Len(parts) >= 6
             THEN <<PRDConflict_create(path,
                        IF MentionsVersion(parts[5]) THEN <<"version_mismatch">>
                        ELSE <<"other">>,
                        parts[4],
                        parts[2] \o <<"↔">> \o parts[3] \o <<": ">> \o parts[5],
                        parts[6],
                        <<"Sync ">> \o parts[3] \o <<" from ">> \o parts[2])>>
                  \o ParseDrift(path, Tail(lines))
             ELSE ParseDrift(path, Tail(lines))

\* PRDMachineService.detect_document_drift: the two derived states come from
\* get_or_create_document_state, which raises FieldError for a missing row
detect_document_drift(fetched_ok, response) ==
    LET created == PRD \notin DOMAIN prd_states
        store == StoreAfterGetOrCreate(prd_states, PRD, next_id, now + 1)
        rows == ParseDrift(PRD, Lines(response.text))
    IN
    /\ prd_states' = store
    /\ next_id' = IdAfterGetOrCreate(prd_states, PRD, next_id)
    /\ UNCHANGED <<prd_versions, task_state, prd_exports, github_issues>>
    /\ IF README \notin DOMAIN prd_states \/ IP \notin DOMAIN prd_states
       THEN /\ last' = Ran("detect_document_drift", PRD, TRUE, <<>>, <<"FieldError">>)
            /\ IF created THEN Tick ELSE UNCHANGED now
            /\ UNCHANGED prd_conflicts
       ELSE IF ~fetched_ok
       THEN /\ last' = Ran("detect_document_drift", PRD, FALSE, <<>>, <<>>)
            /\ IF created THEN Tick ELSE UNCHANGED now
            /\ UNCHANGED prd_conflicts
       ELSE IF ~response.ok
       THEN /\ last' = Ran("detect_document_drift", PRD, TRUE, <<>>, <<"generator">>)
            /\ IF created THEN Tick ELSE UNCHANGED now
            /\ UNCHANGED prd_conflicts
       ELSE /\ Len(prd_conflicts) + Len(rows) <= MaxConflicts
            /\ IF created \/ rows # <<>> THEN Tick ELSE UNCHANGED now
            /\ prd_conflicts' = prd_conflicts \o rows
            /\ last' = Ran("detect_document_drift", PRD, FALSE, <<response.text>>, rows)

(***************************************************************************)
(* SpecConflicts: conflict and drift detection on a repository whose       *)
(* canonical document exists.                                              *)
(***************************************************************************)
InitConflicts ==
    /\ \E c \in Contents :
          prd_states = (PRD :> PRDState_save([NewPRDState(1) EXCEPT !.content = c], 1))
    /\ prd_versions = <<>>
    /\ next_id = 2
    /\ now = 1
    /\ last = Ran("init", "", FALSE, <<>>, <<>>)
    /\ workers = NoWorkers
    /\ prd_events = <<>>
    /\ prd_conflicts = <<>>
    /\ prd_exports = <<>>
    /\ github_issues = <<>>

NextConflicts ==
    \/ \E p \in {README, IP} : get_or_create_prd_state(p)
    \/ \E r \in ConflictAnswers : detect_conflicts(PRD, r)
    \/ \E ok \in BOOLEAN, r \in DriftAnswers : detect_document_drift(ok, r)

SpecConflicts == InitConflicts /\ [][NextConflicts]_vars

(***************************************************************************)
(* SpecDetect: detect_conflicts alone, on a canonical document with or     *)
(* without content.                                                        *)
(***************************************************************************)
NextDetect ==
    \E r \in ConflictAnswers : detect_conflicts(PRD, r)

SpecDetect == InitConflicts /\ [][NextDetect]_vars

(***************************************************************************)
(* Export of the user stories to the issue tracker.                        *)
(***************************************************************************)
\* lines the generator gives export_to_issues
StoryLines ==
    { <<"STORY", "|", "Login", "|", "As a user I log in", "|", "P0">>,
      <<"STORY", "|", "Export", "|", "As a user I export">>,
      <<"STORY", "|", "Broken">> }

\* answers of the generator to export_to_issues
StoryAnswers ==
    {[ok |-> FALSE, text |-> <<>>]}
    \cup {[ok |-> TRUE, text |-> JoinLines(a)] : a \in AnswersOf(StoryLines, MaxLines)}

\* the create_github_issue calls of the export loop, in line order
RECURSIVE StoryCalls(_, _)
StoryCalls(version, lines) ==
    IF Len(lines) = 0 THEN <<>>
    ELSE LET line == Head(lines)
             parts == SplitOn(line, "|")
         IN  IF StartsWith(line, "STORY") /\ Len(parts) >= 3
             THEN <<[ title |-> <<"[PRD] ">> \o parts[2],
                      body |-> parts[3] \o <<"\n\n---\n_Auto-generated from PRD v">>
                               \o version \o <<"_">>,
                      labels |-> <<(<<"prd-generated">>),
                                   IF Len(parts) > 3 THEN parts[4] ELSE <<"P1">>>> ]>>
                  \o StoryCalls(version, Tail(lines))
             ELSE StoryCalls(version, Tail(lines))

\* outcomes of n create_github_issue calls: TRUE returns the issue, FALSE raises
SinkResults(n) == [1..n -> BOOLEAN]

\* the tracker after the calls when the first call that raises ends the loop
RECURSIVE IssuesAfterAborts(_, _, _)
IssuesAfterAborts(calls, sink, issues) ==
    IF Len(calls) = 0 THEN issues
    ELSE IF Head(sink)
         THEN IssuesAfterAborts(Tail(calls), Tail(sink),
                 Append(issues, [ number |-> Len(issues) + 1, title |-> Head(calls).title,
                                  body |-> Head(calls).body, labels |-> Head(calls).labels ]))
         ELSE issues

\* the tracker after the calls: a call that raises opens no issue, the others
\* get the next issue numbers
RECURSIVE IssuesAfter(_, _, _)
IssuesAfter(calls, sink, issues) ==
    IF Len(calls) = 0 THEN issues
    ELSE IssuesAfter(Tail(calls), Tail(sink),
            IF Head(sink)
            THEN Append(issues, [ number |-> Len(issues) + 1, title |-> Head(calls).title,
                                  body |-> Head(calls).body, labels |-> Head(calls).labels ])
            ELSE issues)

\* response.count('STORY|')
CountStoryTags(text) ==
    Cardinality({i \in 1..Len(text) - 1 : text[i] = "STORY" /\ text[i + 1] = "|"})

\* PRDExport.objects.create(...) of export_to_issues; versions.first() is the
\* newest PRDVersion of the document
PRDExport_create(path, created_issues, stories_parsed) ==
    [ prd_state |-> path,
      prd_version |-> IF VersionsOf(path) = {} THEN NULL ELSE Max(VersionsOf(path)),
      export_type |-> "issues", items_created |-> Len(created_issues),
      github_refs |-> created_issues, stories_parsed |-> stories_parsed ]

\* the body of export_to_issues on the state of path, called as op
ExportToIssues(op, path, version, response, sink) ==
    LET calls == StoryCalls(version, Lines(response.text))
        issues == IssuesAfter(calls, sink, github_issues)
        created_issues == [i \in 1..(Len(issues) - Len(github_issues)) |->
                              issues[Len(github_issues) + i].number]
    IN
    /\ UNCHANGED <<prd_versions, task_state, prd_conflicts>>
    /\ IF ~response.ok
       THEN /\ last' = Ran(op, path, TRUE, <<>>, <<>>)
            /\ UNCHANGED <<prd_exports, github_issues>>
            /\ IF path \in DOMAIN prd_states THEN UNCHANGED now ELSE Tick
       ELSE /\ Len(prd_exports) < MaxExports
            /\ Len(sink) = Len(calls)
            /\ Tick
            /\ github_issues' = issues
            /\ prd_exports' = Append(prd_exports,
                  PRDExport_create(path, created_issues, CountStoryTags(response.text)))
            /\ last' = Ran(op, path, FALSE, <<response.text, sink>>, created_issues)

\* PRDMachineService.export_to_issues, called by the export endpoint, the admin
\* action and the CLI on an existing state
export_to_issues(path, response, sink) ==
    /\ path \in DOMAIN prd_states
    /\ UNCHANGED <<prd_states, next_id>>
    /\ ExportToIssues("export_to_issues", path, prd_states[path].version, response, sink)

\* export_prd_to_issues_task: one run of the task; a run that raises is retried
export_prd_to_issues_task(response, sink) ==
    LET store == StoreAfterGetOrCreate(prd_states, PRD, next_id, now + 1) IN
    /\ prd_states' = store
    /\ next_id' = IdAfterGetOrCreate(prd_states, PRD, next_id)
    /\ ExportToIssues("export_prd_to_issues_task", PRD, store[PRD].version, response, sink)

(***************************************************************************)
(* SpecExport: exports of a canonical document whose content does not      *)
(* change.                                                                 *)
(***************************************************************************)
NextExport ==
    \/ \E r \in StoryAnswers, sink \in UNION {SinkResults(n) : n \in 0..MaxLines} :
          export_to_issues(PRD, r, sink)
    \/ \E r \in StoryAnswers, sink \in UNION {SinkResults(n) : n \in 0..MaxLines} :
          export_prd_to_issues_task(r, sink)

SpecExport == InitConflicts /\ [][NextExport]_vars

(***************************************************************************)
(* SpecTriggers: the trigger tasks run one at a time on a repository whose  *)
(* canonical document exists; auto_evolve is switched through the REST API. *)
(***************************************************************************)
\* PRDStateViewSet partial update of auto_evolve: serializer.save() saves the row
set_auto_evolve(path, value) ==
    /\ path \in DOMAIN prd_states
    /\ Tick
    /\ prd_states' = [prd_states EXCEPT ![path] =
          PRDState_save([prd_states[path] EXCEPT !.auto_evolve = value], now + 1)]
    /\ last' = Ran("set_auto_evolve", path, FALSE, <<value>>, <<>>)
    /\ UNCHANGED <<prd_versions, next_id, task_state, report_state>>

\* PRDEvent.objects.create(prd_state, event_type, event_data)
TriggerEvent_create(event_type, event_data) ==
    [prd_state |-> PRD, event_type |-> event_type, event_data |-> event_data,
     processed |-> FALSE, processed_at |-> NULL, result |-> <<>>]

\* distill_prd on a loaded row at time t: whether it raises, the row as last
\* saved, and the PRDVersion rows it creates
DistillOutcome(prd_state, trigger, evolved, summary_ok, t) ==
    LET saved == PRDState_save([prd_state EXCEPT
                    !.content = evolved.text,
                    !.last_distilled_at = t,
                    !.version = _increment_version(prd_state.version)], t)
    IN  IF ~evolved.ok \/ IncrementVersionRaises(prd_state.version)
        THEN [raised |-> TRUE, state |-> prd_state, rows |-> <<>>]
        ELSE IF prd_state.content # "" /\ ~summary_ok
        THEN [raised |-> TRUE, state |-> saved, rows |-> <<>>]
        ELSE [raised |-> FALSE, state |-> saved,
              rows |-> <<PRDVersion_create(PRD, saved.version, evolved.text,
                             saved.content_hash, trigger.type, trigger.ref,
                             IF prd_state.content = "" THEN <<"Initial version">>
                             ELSE AISummary, t)>>]

\* the body shared by the three webhook tasks: load the row, log the event,
\* distill when the trigger qualifies, mark the event processed; delivery is
\* what the sender knew about the trigger, recorded with the run
TriggerTask(op, event_type, trigger, qualifies, skipped, disabled, evolved, summary_ok, delivery) ==
    LET store == StoreAfterGetOrCreate(prd_states, PRD, next_id, now + 1)
        prd_state == store[PRD]
        e == Len(prd_events) + 1
        events == Append(prd_events, TriggerEvent_create(event_type, trigger.ref))
        out == DistillOutcome(prd_state, trigger, evolved, summary_ok, now + 1)
        result == IF ~prd_state.auto_evolve THEN disabled ELSE skipped
    IN
    /\ Tick
    /\ next_id' = IdAfterGetOrCreate(prd_states, PRD, next_id)
    /\ UNCHANGED <<workers, report_state>>
    /\ IF ~(qualifies /\ prd_state.auto_evolve)
       THEN /\ prd_states' = store
            /\ prd_events' = EventProcessed(events, e, now + 1, result)
            /\ last' = Ran(op, PRD, FALSE, <<FALSE>> \o delivery, result)
            /\ UNCHANGED prd_versions
       ELSE /\ prd_states' = [store EXCEPT ![PRD] = out.state]
            /\ prd_versions' = prd_versions \o out.rows
            /\ prd_events' = IF out.raised THEN events
                             ELSE EventProcessed(events, e, now + 1,
                                      <<"Distilled PRD to v">> \o out.state.version)
            /\ last' = Ran(op, PRD, out.raised, <<TRUE>> \o delivery,
                           IF out.raised THEN <<>>
                           ELSE <<"Distilled PRD to v">> \o out.state.version)

\* process_github_push_event, run to its end; relevant: the commit message holds
\* one of the keywords or 'PRD.md'
process_github_push_event(relevant, evolved, summary_ok) ==
    /\ relevant \in BOOLEAN
    /\ TriggerTask("process_github_push_event", "push",
                [type |-> "commit", ref |-> <<"abc1234">>], relevant,
                <<"No PRD-relevant changes detected">>,
                <<"Auto-evolve disabled - skipped">>, evolved, summary_ok, <<>>)

PRActions == {"opened", "closed"}

\* process_github_pr_event, run to its end
process_github_pr_event(action, evolved, summary_ok) ==
    /\ action \in PRActions
    /\ TriggerTask("process_github_pr_event", "pull_request",
                [type |-> "pr_merge", ref |-> <<"PR #", "7">>], action = "closed",
                <<"PR action '", action, "' - no distillation needed">>,
                <<"PR action '", action, "' - no distillation needed">>,
                evolved, summary_ok, <<>>)

IssueActions == {"opened", "closed", "labeled"}

\* process_github_issue_event, run to its end
process_github_issue_event(has_prd_label, action, evolved, summary_ok) ==
    /\ action \in IssueActions
    /\ TriggerTask("process_github_issue_event", "issues",
                [type |-> IF action = "opened" THEN "issue_created" ELSE "issue_closed",
                 ref |-> <<"Issue #", "3">>],
                has_prd_label /\ action \in {"opened", "closed"},
                <<"No PRD-relevant labels">>, <<"No PRD-relevant labels">>,
                evolved, summary_ok, <<>>)

\* scheduled_prd_distillation: with a repo argument the repo is processed; without
\* one, the repos of the rows with auto_evolve=True are.  An exception of
\* distill_prd is caught and reported in the result list.
scheduled_prd_distillation(repo_given, evolved, summary_ok) ==
    LET repos == IF repo_given \/ \E p \in DOMAIN prd_states : prd_states[p].auto_evolve
                 THEN 1 ELSE 0
        store == StoreAfterGetOrCreate(prd_states, PRD, next_id, now + 1)
        out == DistillOutcome(store[PRD],
                   [type |-> "scheduled",
                    ref |-> <<"Scheduled distillation at ", ToString(now + 1)>>],
                   evolved, summary_ok, now + 1)
    IN
    /\ UNCHANGED <<task_state, report_state>>
    /\ IF repos = 0
       THEN /\ last' = Ran("scheduled_prd_distillation", PRD, FALSE, <<repo_given>>, <<>>)
            /\ UNCHANGED <<prd_states, prd_versions, next_id, now>>
       ELSE /\ Tick
            /\ next_id' = IdAfterGetOrCreate(prd_states, PRD, next_id)
            /\ prd_states' = [store EXCEPT ![PRD] = out.state]
            /\ prd_versions' = prd_versions \o out.rows
            /\ last' = Ran("scheduled_prd_distillation", PRD, FALSE, <<repo_given>>,
                           IF out.raised THEN <<"error">> ELSE <<"success">>)

NextTriggers ==
    \/ get_or_create_prd_state(README)
    \/ \E b \in BOOLEAN : set_auto_evolve(PRD, b)
    \/ \E r \in BOOLEAN, e \in CallResults, ok \in BOOLEAN :
          process_github_push_event(r, e, ok)
    \/ \E a \in PRActions, e \in CallResults, ok \in BOOLEAN :
          process_github_pr_event(a, e, ok)
    \/ \E l \in BOOLEAN, a \in IssueActions, e \in CallResults, ok \in BOOLEAN :
          process_github_issue_event(l, a, e, ok)
    \/ \E g \in BOOLEAN, e \in CallResults, ok \in BOOLEAN :
          scheduled_prd_distillation(g, e, ok)

SpecTriggers == InitConflicts /\ [][NextTriggers]_vars

(***************************************************************************)
(* SpecEngine: every operation of PRDMachineService, one call at a time, on *)
(* a repository whose canonical document exists.                           *)
(***************************************************************************)
\* generator answers of at most one line
ShortAnswers(lines) ==
    {[ok |-> FALSE, text |-> <<>>]} \cup {[ok |-> TRUE, text |-> l] : l \in lines}

\* a failed call, or a call that returns a non-empty text
EngineResults == {r \in CallResults : ~r.ok \/ r.text # ""}

NextEngine ==
    \/ \E p \in Paths : get_or_create_prd_state(p)
    \/ \E f \in EngineResults, ok \in BOOLEAN : sync_from_github(PRD, f, ok)
    \/ \E t \in Triggers, e \in EngineResults, ok \in BOOLEAN : distill_prd(PRD, t, e, ok)
    \/ \E g \in EngineResults : generate_prd_from_scratch(DEFAULT_REPO, NoName, PRD, g)
    \/ \E f \in EngineResults, u \in EngineResults : sync_readme_from_prd(f, u)
    \/ \E f \in EngineResults, u \in EngineResults : sync_ip_from_prd(f, u)
    \/ \E b \in BumpTypes : bump_version(PRD, b)
    \/ \E r \in ShortAnswers(StoryLines), sink \in SinkResults(0) \cup SinkResults(1) :
          export_to_issues(PRD, r, sink)
    \/ \E r \in ShortAnswers(ConflictLines) : detect_conflicts(PRD, r)
    \/ \E ok \in BOOLEAN, r \in ShortAnswers(DriftLines) : detect_document_drift(ok, r)

SpecEngine == InitConflicts /\ [][NextEngine]_vars

(***************************************************************************)
(* SpecGenerate: generation from scratch on a document whose content and    *)
(* version are drawn from bounded sets, by services of several repositories *)
(* (each keeps its own PRD.md row; the row shown is the caller's).          *)
(***************************************************************************)
\* repository identifiers: owner/name, a hyphenated name in mixed case, a name
\* with a digit, an identifier without owner
Repos ==
    { DEFAULT_REPO,
      <<"a", "/", "m", "y", "-", "A", "P", "I">>,
      <<"o", "/", "x", "2", "y", "-", "d", "b">>,
      <<"s", "o", "l", "o">> }

\* the project_name argument: absent, or given
ProjectNames == { NoName, <<"M", "y", " ", "a", "p", "p">> }

NextGenerate ==
    \/ \E r \in Repos, n \in ProjectNames, g \in CallResults :
          generate_prd_from_scratch(r, n, PRD, g)
    \/ \E t \in Triggers, e \in CallResults, ok \in BOOLEAN : distill_prd(PRD, t, e, ok)

SpecGenerate == InitVersion /\ [][NextGenerate]_vars

(***************************************************************************)
(* SpecAlign: align_all_documents and the derived rows it needs.            *)
(***************************************************************************)
\* sync_from_github('PRD.md') at time t on the given tables: whether it raises,
\* and the tables it leaves
SyncOutcome(store0, versions, t, fetched, summary_ok) ==
    LET store == StoreAfterGetOrCreate(store0, PRD, next_id, t)
        state == store[PRD]
        content == fetched.text
        new_hash == SHA256(content)
        saved == PRDState_save([state EXCEPT !.content = content,
                                             !.last_synced_at = t], t)
    IN  IF ~fetched.ok
        THEN [raised |-> TRUE, store |-> store, versions |-> versions]
        ELSE IF new_hash = state.content_hash
        THEN [raised |-> FALSE, store |-> store, versions |-> versions]
        ELSE IF state.content # "" /\ ~summary_ok
        THEN [raised |-> TRUE, store |-> [store EXCEPT ![PRD] = saved],
              versions |-> versions]
        ELSE [raised |-> FALSE, store |-> [store EXCEPT ![PRD] = saved],
              versions |-> PRDVersion_insert(versions,
                  PRDVersion_create(PRD, saved.version, content, new_hash,
                      "manual_sync", <<"Synced from GitHub">>,
                      IF state.content # "" THEN AISummary ELSE <<"Initial sync">>, t))]

\* sync_readme_from_prd / sync_ip_from_prd at time t on the given tables
DerivedOutcome(store, versions, path, summary, t, fetched, updated) ==
    LET saved == PRDState_save([store[path] EXCEPT !.content = updated.text], t) IN
    IF path \notin DOMAIN store
    THEN [raised |-> TRUE, ret |-> "FieldError", store |-> store, versions |-> versions]
    ELSE IF ~fetched.ok
    THEN [raised |-> FALSE, ret |-> "skipped", store |-> store, versions |-> versions]
    ELSE IF ~updated.ok
    THEN [raised |-> TRUE, ret |-> "generator", store |-> store, versions |-> versions]
    ELSE [raised |-> FALSE, ret |-> "synced",
          store |-> [store EXCEPT ![path] = saved],
          versions |-> PRDVersion_insert(versions,
              PRDVersion_create(path, saved.version, updated.text, saved.content_hash,
                  "manual_sync", <<"Synced from PRD v">> \o store[PRD].version,
                  summary \o store[PRD].version, t))]

\* PRDMachineService.align_all_documents: the three syncs in turn; an exception
\* of one of them leaves the method at once
align_all_documents(fetched, summary_ok, readme, ip) ==
    \E prd \in {SyncOutcome(prd_states, prd_versions, now + 1, fetched, summary_ok)} :
    \E r \in {DerivedOutcome(prd.store, prd.versions, README, <<"Aligned with PRD v">>,
                             now + 1, readme.fetched, readme.updated)} :
    \E i \in {DerivedOutcome(r.store, r.versions, IP,
                             <<"Aligned deliverables with PRD v">>,
                             now + 1, ip.fetched, ip.updated)} :
    \E done \in {IF prd.raised THEN [store |-> prd.store, versions |-> prd.versions,
                                     stage |-> "sync_from_github", ret |-> <<>>]
                 ELSE IF r.raised THEN [store |-> r.store, versions |-> r.versions,
                                        stage |-> "sync_readme_from_prd", ret |-> <<>>]
                 ELSE IF i.raised THEN [store |-> i.store, versions |-> i.versions,
                                        stage |-> "sync_ip_from_prd", ret |-> <<>>]
                 ELSE [store |-> i.store, versions |-> i.versions, stage |-> "",
                       ret |-> <<PRD, README, IP>>]} :
    /\ prd_states' = done.store
    /\ prd_versions' = done.versions
    /\ next_id' = IdAfterGetOrCreate(prd_states, PRD, next_id)
    /\ IF done.store # prd_states \/ done.versions # prd_versions
       THEN Tick ELSE UNCHANGED now
    /\ last' = Ran("align_all_documents", PRD, done.stage # "",
                   <<done.stage, readme.fetched.ok /\ readme.updated.ok,
                     ip.fetched.ok /\ ip.updated.ok>>, done.ret)
    /\ UNCHANGED <<task_state, report_state>>

\* the answers of the content source and of the text generator to one derived sync
DerivedCalls == [fetched : EngineResults, updated : EngineResults]

NextAlign ==
    \/ \E p \in {README, IP} : get_or_create_prd_state(p)
    \/ \E f \in CallResults, ok \in BOOLEAN, r \in DerivedCalls, i \in DerivedCalls :
          align_all_documents(f, ok, r, i)

SpecAlign == Init /\ [][NextAlign]_vars

(***************************************************************************)
(* SpecAlerts: the life of PRDConflict rows: detection, notification,       *)
(* resolution through the API and the admin, edits through the REST API.    *)
(***************************************************************************)
\* values of PRDState.slack_webhook: blank (the default) or a URL
Webhooks == {"", "https://hooks.slack.example/T1"}

\* PRDStateViewSet partial update of slack_webhook: serializer.save() saves the row
set_slack_webhook(path, url) ==
    /\ path \in DOMAIN prd_states
    /\ Tick
    /\ prd_states' = [prd_states EXCEPT ![path] =
          PRDState_save([prd_states[path] EXCEPT !.slack_webhook = url], now + 1)]
    /\ last' = Ran("set_slack_webhook", path, FALSE, <<url>>, <<>>)
    /\ UNCHANGED <<prd_versions, next_id, task_state, report_state>>

\* outcomes of requests.post(webhook_url, ...): a 2xx response, another
\* response, an exception (timeout, connection error)
Deliveries == {"ok", "failed", "exception"}

\* any HTTP response taken for a delivery
AlertAnswered(delivery) ==
    delivery \in {"ok", "failed"}

\* response.ok
AlertDelivered(delivery) ==
    delivery = "ok"

\* PRDMachineService.send_slack_alert on the i-th conflict
send_slack_alert(i, delivery) ==
    /\ i \in 1..Len(prd_conflicts)
    /\ LET conflict == prd_conflicts[i]
           webhook_url == prd_states[conflict.prd_state].slack_webhook
           sent == webhook_url # "" /\ delivery # "exception" /\ AlertDelivered(delivery)
       IN  /\ prd_conflicts' = IF sent
                               THEN [prd_conflicts EXCEPT ![i].slack_notified = TRUE]
                               ELSE prd_conflicts
           /\ last' = Ran("send_slack_alert", conflict.prd_state, FALSE,
                          <<i, delivery>>, <<sent>>)
    /\ UNCHANGED <<prd_states, prd_versions, next_id, now, task_state,
                   prd_exports, github_issues>>

Users == {"anonymous"}

\* PRDConflictViewSet.resolve
resolve(i, user) ==
    /\ i \in 1..Len(prd_conflicts)
    /\ Tick
    /\ prd_conflicts' = [prd_conflicts EXCEPT ![i].resolved = TRUE,
                                              ![i].resolved_at = now + 1,
                                              ![i].resolved_by = <<"API: ", user>>]
    /\ last' = Ran("resolve", prd_conflicts[i].prd_state, FALSE, <<i>>, <<"resolved">>)
    /\ UNCHANGED <<prd_states, prd_versions, next_id, task_state,
                   prd_exports, github_issues>>

\* PRDConflictAdmin.action_resolve_conflicts on the selected rows
action_resolve_conflicts(selected, user) ==
    /\ selected # {}
    /\ selected \subseteq 1..Len(prd_conflicts)
    /\ Tick
    /\ prd_conflicts' = [i \in 1..Len(prd_conflicts) |->
          IF i \in selected
          THEN [prd_conflicts[i] EXCEPT !.resolved = TRUE, !.resolved_at = now + 1,
                                        !.resolved_by = <<"Admin: ", user>>]
          ELSE prd_conflicts[i]]
    /\ last' = Ran("action_resolve_conflicts", PRD, FALSE, <<selected>>,
                   <<Cardinality(selected)>>)
    /\ UNCHANGED <<prd_states, prd_versions, next_id, task_state,
                   prd_exports, github_issues>>

\* fields a client may send in a PATCH of a conflict: every field of
\* PRDConflictSerializer but id and created_at is writable
ConflictPatches ==
    { [field |-> "resolved", value |-> FALSE],
      [field |-> "slack_notified", value |-> FALSE],
      [field |-> "severity", value |-> <<"low">>],
      [field |-> "description", value |-> <<"edited">>] }

\* PRDConflictViewSet partial_update (ModelViewSet): serializer.save()
update_conflict(i, patch) ==
    /\ i \in 1..Len(prd_conflicts)
    /\ prd_conflicts' = [prd_conflicts EXCEPT ![i] =
          [f \in DOMAIN prd_conflicts[i] |->
              IF f = patch.field THEN patch.value ELSE prd_conflicts[i][f]]]
    /\ last' = Ran("update_conflict", prd_conflicts[i].prd_state, FALSE,
                   <<i, patch.field>>, <<>>)
    /\ UNCHANGED <<prd_states, prd_versions, next_id, now, task_state,
                   prd_exports, github_issues>>

NextAlerts ==
    \/ \E r \in ShortAnswers(ConflictLines) : detect_conflicts(PRD, r)
    \/ \E u \in Webhooks : set_slack_webhook(PRD, u)
    \/ \E i \in 1..MaxConflicts, d \in Deliveries : send_slack_alert(i, d)
    \/ \E i \in 1..MaxConflicts, u \in Users : resolve(i, u)
    \/ \E s \in SUBSET (1..MaxConflicts), u \in Users : action_resolve_conflicts(s, u)
    \/ \E i \in 1..MaxConflicts, p \in ConflictPatches : update_conflict(i, p)

SpecAlerts == InitConflicts /\ [][NextAlerts]_vars

(***************************************************************************)
(* SpecChangelog: changelog exports of a canonical document that is being   *)
(* distilled.                                                               *)
(***************************************************************************)
\* versions.order_by('created_at'): the rows of S, oldest first
RECURSIVE OrderByCreatedAsc(_)
OrderByCreatedAsc(S) ==
    IF S = {} THEN <<>>
    ELSE LET m == CHOOSE i \in S : \A j \in S :
                     \/ prd_versions[i].created_at < prd_versions[j].created_at
                     \/ prd_versions[i].created_at = prd_versions[j].created_at /\ i <= j
         IN  <<m>> \o OrderByCreatedAsc(S \ {m})

\* versions.order_by('-created_at'): the rows of S, newest first
RECURSIVE OrderByCreatedDesc(_)
OrderByCreatedDesc(S) ==
    IF S = {} THEN <<>>
    ELSE LET m == CHOOSE i \in S : \A j \in S :
                     \/ prd_versions[j].created_at < prd_versions[i].created_at
                     \/ prd_versions[j].created_at = prd_versions[i].created_at /\ j <= i
         IN  <<m>> \o OrderByCreatedDesc(S \ {m})

\* answers of the generator to the changelog prompt
ChangelogAnswers ==
    { [ok |-> FALSE, text |-> <<>>],
      [ok |-> TRUE, text |-> <<"### Changed", "\n", "- Scope of the MVP">>] }

\* the version argument of export_to_changelog
TargetVersions == { DefaultVersion, <<"1", ".", "1", ".", "0">> }

\* f"## v{version}\n\n- Initial release\n"
InitialChangelog(version) ==
    <<"## v">> \o version \o <<"\n", "\n", "- Initial release", "\n">>

\* PRDExport.objects.create(...) of export_to_changelog
PRDChangelog_create(path, changelog_content, version) ==
    [ prd_state |-> path,
      prd_version |-> IF VersionsOf(path) = {} THEN NULL ELSE Max(VersionsOf(path)),
      export_type |-> "changelog", items_created |-> 1, github_refs |-> <<>>,
      changelog |-> changelog_content, version |-> version ]

\* PRDMachineService.export_to_changelog; the prompt is recorded by the versions
\* and bodies it quotes
export_to_changelog(path, version, response) ==
    \E order \in {OrderByCreatedDesc(VersionsOf(path))} :
    LET recent_versions == SubSeq(order, 1, IF Len(order) < 2 THEN Len(order) ELSE 2)
        current == prd_versions[recent_versions[1]]
        previous == prd_versions[recent_versions[2]]
        called == Len(recent_versions) >= 2
        prompt == IF called
                  THEN <<previous.version, previous.content,
                         current.version, current.content>>
                  ELSE <<>>
        changelog_content == IF called THEN response.text ELSE InitialChangelog(version)
    IN
    /\ path \in DOMAIN prd_states
    /\ UNCHANGED <<prd_states, prd_versions, next_id, task_state, prd_conflicts,
                   github_issues>>
    /\ IF called /\ ~response.ok
       THEN /\ last' = Ran("export_to_changelog", path, TRUE, <<version, prompt>>, <<>>)
            /\ UNCHANGED <<prd_exports, now>>
       ELSE /\ Len(prd_exports) < MaxExports
            /\ Tick
            /\ prd_exports' = Append(prd_exports,
                  PRDChangelog_create(path, changelog_content, version))
            /\ last' = Ran("export_to_changelog", path, FALSE, <<version, prompt>>,
                           changelog_content)

NextChangelog ==
    \/ \E t \in Triggers, e \in EngineResults, ok \in BOOLEAN : distill_prd(PRD, t, e, ok)
    \/ \E v \in TargetVersions, r \in ChangelogAnswers : export_to_changelog(PRD, v, r)

SpecChangelog == InitConflicts /\ [][NextChangelog]_vars

(***************************************************************************)
(* SpecWebhook: pull-request deliveries to the webhook endpoint, each       *)
(* followed by the run of the task it queues.                               *)
(***************************************************************************)
\* the parts of a pull_request payload that say what happened to the PR: only
\* a closed PR can have been merged
PRPayloads ==
    {p \in [action : PRActions, merged : BOOLEAN] : p.merged => p.action = "closed"}

\* github_webhook for a pull_request event, and the process_github_pr_event run
\* it queues: the task is given payload.action, not pull_request.merged
github_webhook_pull_request(payload, evolved, summary_ok) ==
    /\ payload \in PRPayloads
    /\ TriggerTask("github_webhook_pull_request", "pull_request",
                   [type |-> "pr_merge", ref |-> <<"PR #", "7">>],
                   payload.action = "closed",
                   <<"PR action '", payload.action, "' - no distillation needed">>,
                   <<"PR action '", payload.action, "' - no distillation needed">>,
                   evolved, summary_ok, <<payload.action, payload.merged>>)

NextWebhook ==
    \/ \E b \in BOOLEAN : set_auto_evolve(PRD, b)
    \/ \E p \in PRPayloads, e \in CallResults, ok \in BOOLEAN :
          github_webhook_pull_request(p, e, ok)

SpecWebhook == InitConflicts /\ [][NextWebhook]_vars

(***************************************************************************)
(* Properties.                                                             *)
(***************************************************************************)
\* the body of a document before a handler touches it: get_or_create gives a
\* document that has no row yet the empty body
CurrentContent(path) ==
    IF path \in DOMAIN prd_states THEN prd_states[path].content ELSE ""

\* C1: after any committed operation every PRDState has
\* content_hash = SHA-256(content), also when content is the empty string.
C1_HashMatchesContent ==
    \A p \in DOMAIN prd_states :
        prd_states[p].content_hash = SHA256(prd_states[p].content)

\* C2: for every PRDState that has a PRDVersion, the most recently created
\* PRDVersion carries the content_hash the PRDState has now.
C2_LatestVersionHash ==
    \A p \in DOMAIN prd_states :
        VersionsOf(p) # {} =>
            prd_versions[Max(VersionsOf(p))].content_hash = prd_states[p].content_hash

\* C3: a sync_from_github whose fetched content hashes identically to the
\* document's current content creates no PRDVersion and leaves content as it
\* was, for every content value, the empty string included.
C3_NoOpSync ==
    [][ ( /\ last'.op = "sync_from_github"
          /\ ~last'.raised
          /\ SHA256(last'.arg[1]) = SHA256(CurrentContent(PRD)) )
        => ( /\ prd_versions' = prd_versions
             /\ prd_states'[PRD].content = CurrentContent(PRD) ) ]_vars

\* C4: get_or_create_prd_state and get_or_create_document_state are idempotent:
\* when the document has no row the call creates one with version '1.0.0',
\* auto_evolve true, is_locked false and empty content; in every case it
\* returns the identity of the one row of (repo, file_path).
C4_GetOrCreate ==
    last.op \in {"get_or_create_prd_state", "get_or_create_document_state"} =>
        /\ ~last.raised
        /\ last.path \in DOMAIN prd_states
        /\ last.ret = <<prd_states[last.path].id>>
        /\ \A q \in DOMAIN prd_states :
              prd_states[q].id = prd_states[last.path].id => q = last.path
        /\ ~last.arg[1] =>
              /\ prd_states[last.path].version = DefaultVersion
              /\ prd_states[last.path].auto_evolve
              /\ ~prd_states[last.path].is_locked
              /\ prd_states[last.path].content = ""

\* C5: enforce_zero_touch allows every write to an unlocked document; on a
\* locked document whose latest machine-authored version has content C it
\* allows a human write of C and rejects, with the fixed message, a human write
\* of any other content; the engine's own writes (distill_prd) are never blocked.
C5_LockEnforcement ==
    /\ last.op = "enforce_zero_touch" =>
          LET state == prd_states[last.path]
              proposed == last.arg[1]
              machine == MachineVersionsOf(last.path)
          IN  /\ ~state.is_locked => last.ret[1]
              /\ (state.is_locked /\ machine # {}) =>
                    IF proposed = prd_versions[Max(machine)].content
                    THEN last.ret[1]
                    ELSE last.ret = <<FALSE, RejectMessage>>
    /\ (last.op = "distill_prd" /\ ~last.raised) =>
          prd_states[last.path].content = last.arg[2]

\* C6: a distill_prd or sync_from_github that raises (the generator or a
\* collaborator failed at any step, the change-summary call included) commits
\* nothing: the PRDState row and the PRDVersion rows are as before the call.
C6_FailFast ==
    [][ ( /\ last'.op \in {"distill_prd", "sync_from_github"}
          /\ last'.raised
          /\ PRD \in DOMAIN prd_states )
        => ( /\ prd_states'[PRD] = prd_states[PRD]
             /\ prd_versions' = prd_versions ) ]_vars

\* C8: triggers delivered concurrently for one document are serialized, so the
\* PRDVersion rows their distillations create carry distinct successive version
\* strings and no task's write is dropped.
C8_Serialized ==
    \A i, j \in VersionsOf(PRD) :
        i # j => prd_versions[i].version # prd_versions[j].version

\* the version bump_version and distill_prd start from: a version that does not
\* have three dot-separated parts counts as 1.0.0
Baseline(version) ==
    IF Len(Split(version)) = 3 THEN Split(version) ELSE Split(DefaultVersion)

\* C7: every successful distill_prd appends exactly one PRDVersion (not a human
\* edit, with the given trigger_type and trigger_ref, the state's new version
\* and its new content hash), sets content to the generated text and
\* last_distilled_at to the time of the run, and advances the version by one
\* patch increment, major and minor unchanged.
C7_DistillAppendsOne ==
    [][ (last'.op = "distill_prd" /\ ~last'.raised) =>
          LET old == prd_states[PRD]
              new == prd_states'[PRD]
              row == prd_versions'[Len(prd_versions')]
              base == Baseline(old.version)
              parts == Split(new.version)
          IN  /\ Len(prd_versions') = Len(prd_versions) + 1
              /\ SubSeq(prd_versions', 1, Len(prd_versions)) = prd_versions
              /\ row.prd_state = PRD
              /\ ~row.is_human_edit
              /\ row.trigger_type = last'.arg[1]
              /\ row.trigger_ref = last'.ret
              /\ row.version = new.version
              /\ row.content_hash = new.content_hash
              /\ new.content = last'.arg[2]
              /\ new.last_distilled_at = now'
              /\ new.last_distilled_at > old.last_distilled_at
              /\ Len(parts) = 3
              /\ parts[1] = base[1]
              /\ parts[2] = base[2]
              /\ IsInt(parts[3])
              /\ ParseInt(parts[3]) = ParseInt(base[3]) + 1 ]_vars

\* a distillation has taken 1.0.9 to 1.0.10 and recorded the commit that caused it
C7_Witness ==
    /\ last.op = "distill_prd"
    /\ ~last.raised
    /\ last.arg[1] = "commit"
    /\ prd_states[PRD].version = <<"1", ".", "0", ".", "1", "0">>
    /\ prd_versions[Len(prd_versions)].version = prd_states[PRD].version

\* the three integer components of a version string
Components(parts) == <<ParseInt(parts[1]), ParseInt(parts[2]), ParseInt(parts[3])>>

\* C9: bump_version returns and persists (major+1).0.0 for major,
\* major.(minor+1).0 for minor and major.minor.(patch+1) for patch, and leaves
\* content, content_hash and the version history unchanged.
C9_BumpVersion ==
    [][ (last'.op = "bump_version" /\ ~last'.raised) =>
          LET old == prd_states[PRD]
              new == prd_states'[PRD]
              cur == Components(Baseline(old.version))
              bump_type == last'.arg[1]
              expected == CASE bump_type = "major" -> <<cur[1] + 1, 0, 0>>
                            [] bump_type = "minor" -> <<cur[1], cur[2] + 1, 0>>
                            [] bump_type = "patch" -> <<cur[1], cur[2], cur[3] + 1>>
          IN  /\ last'.ret = Join3(FormatInt(expected[1]), FormatInt(expected[2]),
                                   FormatInt(expected[3]))
              /\ new.version = last'.ret
              /\ new.content = old.content
              /\ new.content_hash = old.content_hash
              /\ prd_versions' = prd_versions ]_vars

\* the scenario of the specification: a minor bump of 1.2.3 returned 1.3.0
C9_Witness ==
    /\ last.op = "bump_version"
    /\ ~last.raised
    /\ last.arg = <<"minor">>
    /\ last.ret = <<"1", ".", "3", ".", "0">>
    /\ prd_states[PRD].version = last.ret
    /\ prd_states[PRD].content # ""

\* major, then minor, then patch
VersionLess(a, b) ==
    \/ a[1] < b[1]
    \/ a[1] = b[1] /\ a[2] < b[2]
    \/ a[1] = b[1] /\ a[2] = b[2] /\ a[3] < b[3]

\* C10: every bump_version call returns a version numerically strictly greater
\* (major, then minor, then patch) than the version before the call, for every
\* bump type.
C10_BumpMonotonic ==
    [][ (last'.op = "bump_version" /\ ~last'.raised) =>
          VersionLess(Components(Baseline(prd_states[PRD].version)),
                      Components(Split(last'.ret))) ]_vars

\* two successive calls: a patch bump of 1.0.9 gave 1.0.10, a major bump then 2.0.0
C10_Witness ==
    /\ last.op = "bump_version"
    /\ ~last.raised
    /\ last.arg = <<"major">>
    /\ last.ret = <<"2", ".", "0", ".", "0">>
    /\ now = 3
    /\ prd_states[PRD].updated_at = 3

\* not exactly three dot-separated integers
Malformed(version) ==
    \/ Len(Split(version)) # 3
    \/ \E i \in 1..3 : ~IsInt(Split(version)[i])

\* C11: bump_version on a state whose current version is malformed treats the
\* version as 1.0.0 before bumping: it never raises and returns the bump of
\* 1.0.0 (patch gives 1.0.1).
C11_MalformedBump ==
    [][ (last'.op = "bump_version" /\ Malformed(prd_states[PRD].version)) =>
          /\ ~last'.raised
          /\ last'.ret = BumpVersionResult(DefaultVersion, last'.arg[1])
          /\ prd_states'[PRD].version = last'.ret ]_vars

\* positions of the field separators of a line
Pipes(line) == {i \in 1..Len(line) : line[i] = "|"}

\* the k-th field of a line from position i on (k = 1: the field being read)
RECURSIVE FieldScan(_, _, _, _)
FieldScan(line, k, i, cur) ==
    IF i > Len(line) THEN (IF k = 1 THEN cur ELSE <<>>)
    ELSE IF line[i] = "|"
         THEN (IF k = 1 THEN cur ELSE FieldScan(line, k - 1, i + 1, <<>>))
         ELSE FieldScan(line, k, i + 1, IF k = 1 THEN Append(cur, line[i]) ELSE cur)

\* the k-th field of a line (k = 1 is the tag)
FieldOf(line, k) == FieldScan(line, k, 1, <<>>)

\* a line of the given tag with at least six fields
WellFormed(line, tag) ==
    /\ Len(line) > 0
    /\ line[1] = tag
    /\ Cardinality(Pipes(line)) >= 5

WellFormedConflict(line) == WellFormed(line, "CONFLICT")

\* the row a well-formed conflict line stands for
ConflictOfLine(line) ==
    [ prd_state |-> PRD,
      conflict_type |-> FieldOf(line, 2),
      severity |-> FieldOf(line, 3),
      section_affected |-> FieldOf(line, 4),
      description |-> FieldOf(line, 5),
      suggested_resolution |-> FieldOf(line, 6),
      resolved |-> FALSE, resolved_at |-> NULL, resolved_by |-> <<>>,
      slack_notified |-> FALSE ]

\* one row per well-formed conflict line, in line order
RECURSIVE ConflictsOfLines(_)
ConflictsOfLines(lines) ==
    IF Len(lines) = 0 THEN <<>>
    ELSE IF WellFormedConflict(Head(lines))
         THEN <<ConflictOfLine(Head(lines))>> \o ConflictsOfLines(Tail(lines))
         ELSE ConflictsOfLines(Tail(lines))

\* C12: detect_conflicts persists and returns exactly one PRDConflict per
\* well-formed conflict line of the answer, in line order, unresolved, with the
\* fields mapped to type, severity, section, description and suggestion; shorter
\* lines are skipped and the NO_CONFLICTS answer gives no rows.
C12_DetectConflicts ==
    [][ (last'.op = "detect_conflicts" /\ ~last'.raised /\ prd_states[PRD].content # "") =>
          /\ last'.ret = ConflictsOfLines(Lines(last'.arg[1]))
          /\ prd_conflicts' = prd_conflicts \o last'.ret
          /\ last'.arg[1] = <<"NO_CONFLICTS">> => prd_conflicts' = prd_conflicts ]_vars

\* an answer of a short line followed by a well-formed one gave one row
C12_Witness ==
    /\ last.op = "detect_conflicts"
    /\ ~last.raised
    /\ Len(last.arg) = 1
    /\ Len(Lines(last.arg[1])) = 2
    /\ ~WellFormedConflict(Lines(last.arg[1])[1])
    /\ StartsWith(Lines(last.arg[1])[1], "CONFLICT")
    /\ Len(last.ret) = 1
    /\ last.ret[1].conflict_type = <<"version_mismatch">>
    /\ last.ret[1].suggested_resolution = <<"Update PRD">>
    /\ prd_conflicts[Len(prd_conflicts)] = last.ret[1]

WellFormedDrift(line) == WellFormed(line, "DRIFT")

\* the row a well-formed drift line stands for: owned by the canonical document,
\* section_affected is '<source>↔<target>: <section>'
DriftOfLine(line) ==
    [ prd_state |-> PRD,
      severity |-> FieldOf(line, 4),
      section_affected |->
          FieldOf(line, 2) \o <<"↔">> \o FieldOf(line, 3) \o <<": ">> \o FieldOf(line, 5),
      description |-> FieldOf(line, 6),
      resolved |-> FALSE ]

\* the fields of a stored row that DriftOfLine speaks about
DriftView(row) ==
    [ prd_state |-> row.prd_state, severity |-> row.severity,
      section_affected |-> row.section_affected, description |-> row.description,
      resolved |-> row.resolved ]

\* C13: detect_document_drift persists one PRDConflict per well-formed DRIFT
\* line, each owned by the PRD.md state with section_affected
\* '<source>↔<target>: <section>'; a NO_DRIFT answer gives an empty list and no
\* rows.  The call fails only when the text generator does.
C13_DetectDrift ==
    [][ last'.op = "detect_document_drift" =>
          /\ last'.raised => last'.ret = <<"generator">>
          /\ (~last'.raised /\ Len(last'.arg) = 1) =>
                LET lines == SelectSeq(Lines(last'.arg[1]), WellFormedDrift) IN
                /\ Len(last'.ret) = Len(lines)
                /\ \A i \in 1..Len(lines) : DriftView(last'.ret[i]) = DriftOfLine(lines[i])
                /\ prd_conflicts' = prd_conflicts \o last'.ret
                /\ last'.arg[1] = <<"NO_DRIFT">> => last'.ret = <<>> ]_vars

\* PRDConflict.SEVERITY_CHOICES
SEVERITY_CHOICES == {<<"low">>, <<"medium">>, <<"high">>, <<"critical">>}

\* C20: a conflict or drift line whose severity is not low, medium, high or
\* critical is skipped at parse time: no stored PRDConflict carries an
\* unrecognized severity.
C20_SeverityValidated ==
    \A i \in 1..Len(prd_conflicts) : prd_conflicts[i].severity \in SEVERITY_CHOICES

\* a story line: the tag, a title and a description at least
IsStory(line) ==
    /\ Len(line) > 0
    /\ line[1] = "STORY"
    /\ Cardinality(Pipes(line)) >= 2

\* number and title of the issues an export opens: the k-th story line opens
\* one iff the k-th sink call succeeds; n is the next issue number
RECURSIVE ExportedStories(_, _, _, _)
ExportedStories(lines, sink, k, n) ==
    IF Len(lines) = 0 THEN <<>>
    ELSE IF ~IsStory(Head(lines)) THEN ExportedStories(Tail(lines), sink, k, n)
    ELSE IF sink[k]
         THEN <<[number |-> n, title |-> <<"[PRD] ">> \o FieldOf(Head(lines), 2)]>>
              \o ExportedStories(Tail(lines), sink, k + 1, n + 1)
         ELSE ExportedStories(Tail(lines), sink, k + 1, n)

ExportOps == {"export_to_issues", "export_prd_to_issues_task"}

\* C14: every export_to_issues invocation that the generator answers appends
\* exactly one PRDExport: items_created is the number of successful
\* create_github_issue calls and github_refs lists the numbers they returned in
\* call order; a failing call is omitted and the calls after it are still made;
\* the record is created also when no story was parsed.
C14_ExportRecord ==
    [][ (last'.op \in ExportOps /\ ~last'.raised) =>
          LET exported == ExportedStories(Lines(last'.arg[1]), last'.arg[2], 1,
                                          Len(github_issues) + 1)
              row == prd_exports'[Len(prd_exports')]
          IN  /\ Len(prd_exports') = Len(prd_exports) + 1
              /\ SubSeq(prd_exports', 1, Len(prd_exports)) = prd_exports
              /\ row.prd_state = PRD
              /\ row.export_type = "issues"
              /\ row.items_created = Len(exported)
              /\ Len(row.github_refs) = Len(exported)
              /\ last'.ret = row.github_refs
              /\ Len(github_issues') = Len(github_issues) + Len(exported)
              /\ SubSeq(github_issues', 1, Len(github_issues)) = github_issues
              /\ \A i \in 1..Len(exported) :
                    /\ row.github_refs[i] = exported[i].number
                    /\ github_issues'[Len(github_issues) + i].number = exported[i].number
                    /\ github_issues'[Len(github_issues) + i].title = exported[i].title ]_vars

\* two stories, the first sink call failed and the second succeeded: one record
\* with one reference, the issue of the second story
C14_Witness ==
    /\ last.op = "export_to_issues"
    /\ ~last.raised
    /\ last.arg[2] = <<FALSE, TRUE>>
    /\ Len(last.ret) = 1
    /\ prd_exports[Len(prd_exports)].items_created = 1
    /\ prd_exports[Len(prd_exports)].github_refs = <<Len(github_issues)>>
    /\ github_issues[Len(github_issues)].title = <<"[PRD] ", "Export">>

\* titles of the issues at the tracker
IssueTitles(issues) == {issues[i].title : i \in 1..Len(issues)}

\* C15: canonical content is exported exactly once per logical change: while
\* the content is unchanged, no export invocation (task retries included) opens
\* an issue for a story that an earlier invocation already opened one for.
C15_ExportedOnce ==
    [][ (last'.op \in ExportOps /\ prd_states'[PRD].content = prd_states[PRD].content) =>
          \A i \in (Len(github_issues) + 1)..Len(github_issues') :
              github_issues'[i].title \notin IssueTitles(github_issues) ]_vars

\* C16: while auto_evolve is false for the canonical document, no trigger path
\* (push, pull-request and issue tasks, scheduled distillation with or without
\* a repo argument) distills it: its content, its version and the version
\* history are unchanged by the trigger.
C16_AutoEvolveOff ==
    [][ (/\ last'.op \in {"process_github_push_event", "process_github_pr_event",
                         "process_github_issue_event", "scheduled_prd_distillation"}
         /\ ~prd_states[PRD].auto_evolve) =>
          /\ prd_states'[PRD].content = prd_states[PRD].content
          /\ prd_states'[PRD].version = prd_states[PRD].version
          /\ prd_versions' = prd_versions ]_vars

\* C17: PRDVersion rows are append-only: no operation of the engine (sync,
\* distill, generate, derived sync, bump, export, conflict and drift detection)
\* changes or removes an existing row; an operation only adds rows, each stamped
\* with the time of its creation, so the rows of a document are ordered by
\* creation time.
C17_AppendOnly ==
    [][ /\ Len(prd_versions') >= Len(prd_versions)
        /\ SubSeq(prd_versions', 1, Len(prd_versions)) = prd_versions
        /\ \A i \in (Len(prd_versions) + 1)..Len(prd_versions') :
              prd_versions'[i].created_at = now'
        /\ \A i, j \in 1..Len(prd_versions') :
              (i < j /\ prd_versions'[i].prd_state = prd_versions'[j].prd_state)
                 => prd_versions'[i].created_at <= prd_versions'[j].created_at ]_vars

\* a second generation of the canonical document: two rows of the same document
\* and version, the earlier one kept
C17_Witness ==
    /\ last.op = "generate_prd_from_scratch"
    /\ ~last.raised
    /\ Len(prd_versions) >= 2
    /\ \E i \in 1..(Len(prd_versions) - 1) :
          /\ prd_versions[i].prd_state = PRD
          /\ prd_versions[i].version = prd_versions[Len(prd_versions)].version
          /\ prd_versions[i].created_at < prd_versions[Len(prd_versions)].created_at

\* position of the last "/" of s, 0 when there is none
LastSlash(s) ==
    IF \E i \in 1..Len(s) : s[i] = "/"
    THEN CHOOSE i \in 1..Len(s) : s[i] = "/" /\ \A j \in (i + 1)..Len(s) : s[j] # "/"
    ELSE 0

\* name is the last path segment of repo with hyphens replaced by spaces, every
\* word starting in upper case and a letter that follows a letter in lower case
DerivedFrom(repo, name) ==
    LET k == LastSlash(repo) IN
    /\ Len(name) = Len(repo) - k
    /\ \A i \in 1..Len(name) :
          LET c == repo[k + i]
              d == name[i]
          IN  /\ c = "-" => d = " "
              /\ c # "-" => ToLower(d) = ToLower(c)
              /\ (IsCased(c) /\ (i = 1 \/ repo[k + i - 1] = "-")) => IsUpper(d)
              /\ (IsCased(c) /\ i > 1 /\ IsCased(repo[k + i - 1])) => IsLower(d)

\* C18: generate_prd_from_scratch always leaves the document at version 1.0.0
\* and appends exactly one PRDVersion with trigger_type 'initial', version
\* 1.0.0 and the content_hash of the state, whatever the document's previous
\* content or version; without a project name the name is derived from the
\* repository id: last path segment, hyphens replaced by spaces, title-cased.
C18_GenerateFromScratch ==
    [][ (last'.op = "generate_prd_from_scratch" /\ ~last'.raised) =>
          LET row == prd_versions'[Len(prd_versions')] IN
          /\ prd_states'[PRD].version = DefaultVersion
          /\ prd_states'[PRD].content = last'.arg[1]
          /\ Len(prd_versions') = Len(prd_versions) + 1
          /\ SubSeq(prd_versions', 1, Len(prd_versions)) = prd_versions
          /\ row.prd_state = PRD
          /\ row.trigger_type = "initial"
          /\ row.version = DefaultVersion
          /\ row.content_hash = prd_states'[PRD].content_hash
          /\ IF last'.arg[3] = NoName
             THEN DerivedFrom(last'.arg[2], last'.arg[4])
             ELSE last'.arg[4] = last'.arg[3] ]_vars

\* a document distilled to a version other than 1.0.0 is generated anew by the
\* service of a/my-API without a project name: the name is "My Api"
C18_Witness ==
    /\ last.op = "generate_prd_from_scratch"
    /\ ~last.raised
    /\ last.arg[2] = <<"a", "/", "m", "y", "-", "A", "P", "I">>
    /\ last.arg[3] = NoName
    /\ last.arg[4] = <<"M", "y", " ", "A", "p", "i">>
    /\ Len(prd_versions) = 2
    /\ prd_versions[1].version # DefaultVersion
    /\ prd_versions[2].trigger_type = "initial"
    /\ prd_states[PRD].version = DefaultVersion

\* the PRDEvent rows logged for the trigger delivered to worker w
EventsOf(w) ==
    {e \in 1..Len(prd_events) : prd_events[e].commit_sha = <<"sha", ToString(w)>>}

\* C19: a delivered trigger has one PRDEvent, created unprocessed when the
\* trigger arrives and updated once, to processed with processed_at and result
\* set, when its processing completes (distilled or skipped).
C19_OneEventPerTrigger ==
    \A w \in 1..MaxWorkers :
        /\ Cardinality(EventsOf(w)) <= 1
        /\ workers[w].pc \in {"skipped", "distilled"} =>
              \A e \in EventsOf(w) :
                  /\ prd_events[e].processed
                  /\ prd_events[e].processed_at # NULL
                  /\ prd_events[e].result # <<>>

\* C21: align_all_documents syncs the canonical document, then README.md, then
\* IP.md, and returns the three states; a derived sync that fails does not undo
\* or prevent the other one: when the canonical sync went through and the IP.md
\* row, its fetch and its generation are all fine, IP.md gets its new version
\* whatever happened to README.md.
C21_AlignIndependent ==
    [][ (/\ last'.op = "align_all_documents"
         /\ last'.arg[1] # "sync_from_github"
         /\ IP \in DOMAIN prd_states
         /\ last'.arg[3]) =>
          /\ Len(prd_versions') > Len(prd_versions)
          /\ prd_versions'[Len(prd_versions')].prd_state = IP ]_vars

DerivedOps == {"sync_readme_from_prd", "sync_ip_from_prd"}

\* the PRDVersion rows of a document
RowsOf(versions, path) == SelectSeq(versions, LAMBDA v : v.prd_state = path)

\* C22: derived sync is one-way: sync_readme_from_prd and sync_ip_from_prd never
\* modify the canonical PRDState (content, content_hash, version) nor its
\* PRDVersion rows; a successful sync appends exactly one PRDVersion to the
\* derived document, with trigger_type manual_sync and a change summary naming
\* the canonical version, and sets the derived state's last_aligned_at.
C22_DerivedOneWay ==
    [][ last'.op \in DerivedOps =>
          /\ prd_states'[PRD] = prd_states[PRD]
          /\ RowsOf(prd_versions', PRD) = RowsOf(prd_versions, PRD)
          /\ (~last'.raised /\ last'.ret = <<"synced">>) =>
                LET row == prd_versions'[Len(prd_versions')] IN
                /\ Len(prd_versions') = Len(prd_versions) + 1
                /\ SubSeq(prd_versions', 1, Len(prd_versions)) = prd_versions
                /\ row.prd_state = last'.path
                /\ row.trigger_type = "manual_sync"
                /\ Len(row.change_summary) >= Len(prd_states[PRD].version)
                /\ SubSeq(row.change_summary,
                          Len(row.change_summary) - Len(prd_states[PRD].version) + 1,
                          Len(row.change_summary)) = prd_states[PRD].version
                /\ "last_aligned_at" \in DOMAIN prd_states'[last'.path]
                /\ prd_states'[last'.path].last_aligned_at = now' ]_vars

\* C23: when the fetch of README.md / IP.md fails, the derived sync skips: it
\* raises nothing, returns the derived state as persisted and creates no
\* PRDVersion.
C23_SkipWhenMissing ==
    [][ (/\ last'.op \in DerivedOps
         /\ \/ last'.ret = <<"skipped">>
            \/ last'.ret = <<"FieldError">> /\ last'.arg = <<FALSE>>) =>
          /\ ~last'.raised
          /\ last'.path \in DOMAIN prd_states'
          /\ prd_states' = prd_states
          /\ prd_versions' = prd_versions ]_vars

\* C24: send_slack_alert returns false and changes nothing when the owning
\* document has no webhook; otherwise it sets slack_notified and returns true
\* exactly when the delivery is confirmed; on a failed delivery or an exception
\* it returns false, raises nothing and leaves slack_notified as it was.
C24_SlackAlert ==
    [][ last'.op = "send_slack_alert" =>
          LET i == last'.arg[1]
              confirmed == /\ prd_states[prd_conflicts[i].prd_state].slack_webhook # ""
                           /\ last'.arg[2] = "ok"
          IN  /\ ~last'.raised
              /\ last'.ret = <<confirmed>>
              /\ prd_states' = prd_states
              /\ confirmed =>
                    prd_conflicts' = [prd_conflicts EXCEPT ![i].slack_notified = TRUE]
              /\ ~confirmed => prd_conflicts' = prd_conflicts ]_vars

\* an alert that was delivered for a conflict not yet notified, after one that
\* was not
C24_Witness ==
    /\ last.op = "send_slack_alert"
    /\ last.ret = <<TRUE>>
    /\ prd_conflicts[last.arg[1]].slack_notified
    /\ prd_states[PRD].slack_webhook # ""
    /\ \E j \in 1..Len(prd_conflicts) : ~prd_conflicts[j].slack_notified

\* C27: once created, a PRDConflict changes only by resolution (resolved goes
\* from false to true, with resolved_at and resolved_by set) or by the
\* notification step (slack_notified goes to true): its type, severity,
\* section, description and suggestion never change, and neither resolved nor
\* slack_notified returns to false.
C27_ConflictFrame ==
    [][ \A i \in 1..Len(prd_conflicts) :
          /\ i <= Len(prd_conflicts')
          /\ prd_conflicts'[i].conflict_type = prd_conflicts[i].conflict_type
          /\ prd_conflicts'[i].severity = prd_conflicts[i].severity
          /\ prd_conflicts'[i].section_affected = prd_conflicts[i].section_affected
          /\ prd_conflicts'[i].description = prd_conflicts[i].description
          /\ prd_conflicts'[i].suggested_resolution = prd_conflicts[i].suggested_resolution
          /\ prd_conflicts[i].resolved => prd_conflicts'[i].resolved
          /\ prd_conflicts[i].slack_notified => prd_conflicts'[i].slack_notified
          /\ (~prd_conflicts[i].resolved /\ prd_conflicts'[i].resolved) =>
                /\ prd_conflicts'[i].resolved_at = now'
                /\ prd_conflicts'[i].resolved_by # <<>> ]_vars

\* C25: export_to_changelog creates exactly one PRDExport of type changelog whose
\* details.changelog is the produced text: with fewer than two PRDVersion rows
\* the text is the synthesized initial-release entry and the generator is not
\* called; otherwise the generator is called once, with the two most recently
\* created versions (current the newest, previous the one before it), and its
\* answer is the text.
C25_ExportChangelog ==
    [][ last'.op = "export_to_changelog" =>
          LET rows == RowsOf(prd_versions, PRD)
              n == Len(rows)
              prompt == last'.arg[2]
          IN  /\ n < 2 => ~last'.raised /\ prompt = <<>>
              /\ n >= 2 => prompt = <<rows[n - 1].version, rows[n - 1].content,
                                      rows[n].version, rows[n].content>>
              /\ last'.raised => prd_exports' = prd_exports
              /\ ~last'.raised =>
                    LET row == prd_exports'[Len(prd_exports')] IN
                    /\ Len(prd_exports') = Len(prd_exports) + 1
                    /\ SubSeq(prd_exports', 1, Len(prd_exports)) = prd_exports
                    /\ row.prd_state = PRD
                    /\ row.export_type = "changelog"
                    /\ row.changelog = last'.ret
                    /\ n < 2 => row.changelog =
                                  <<"## v">> \o last'.arg[1]
                                      \o <<"\n", "\n", "- Initial release", "\n">>
                    /\ n >= 2 => row.changelog \in
                                  {a.text : a \in {b \in ChangelogAnswers : b.ok}} ]_vars

\* a changelog generated from the two versions of a twice-distilled document
C25_Witness ==
    /\ last.op = "export_to_changelog"
    /\ ~last.raised
    /\ Len(last.arg[2]) = 4
    /\ last.arg[2][1] # last.arg[2][3]
    /\ Len(prd_exports) = 1
    /\ prd_exports[1].export_type = "changelog"
    /\ prd_exports[1].changelog # InitialChangelog(prd_exports[1].version)


\* C26: the history of a document is no-version -> initial -> evolving ...: a
\* PRDVersion with trigger_type 'initial' is the first version of its document,
\* never one that follows another version of it.
C26_InitialIsFirst ==
    \A i \in 1..Len(prd_versions) :
        prd_versions[i].trigger_type = "initial" =>
            \A j \in 1..(i - 1) : prd_versions[j].prd_state # prd_versions[i].prd_state

\* C28: process_github_pr_event distills (trigger_type pr_merge) only for pull
\* requests that were merged: a pull request closed without a merge, or any
\* other PR action, changes neither the document nor its version history.
C28_OnlyMergedDistills ==
    [][ (last'.op = "github_webhook_pull_request" /\ ~last'.arg[3]) =>
          /\ prd_versions' = prd_versions
          /\ prd_states'[PRD].content = prd_states[PRD].content
          /\ prd_states'[PRD].version = prd_states[PRD].version ]_vars


\* C29: across engine operations on a document the PRDState's semantic version
\* never decreases, and the version strings of its PRDVersion rows are
\* non-decreasing in creation order.
C29_VersionNeverDecreases ==
    [][ /\ ~VersionLess(Components(Baseline(prd_states'[PRD].version)),
                        Components(Baseline(prd_states[PRD].version)))
        /\ \A i, j \in VersionsOf(PRD)' :
              i < j => ~VersionLess(Components(Baseline(prd_versions'[j].version)),
                                    Components(Baseline(prd_versions'[i].version))) ]_vars

\* C30: once a delivered task and all of its retries have finished (skipped,
\* distilled, or given up after max_retries), every PRDEvent it created is
\* marked processed.
C30_EventsProcessed ==
    \A w \in 1..MaxWorkers :
        workers[w].pc \in {"skipped", "distilled", "failed"} =>
            \A e \in EventsOf(w) : prd_events[e].processed

====
